---- MODULE Spec2Model ----
(***************************************************************************)
(* Layer-tree reordering of the two QGIS plugins of this repository:       *)
(*   SortLayersPlugin          (src/sort_layers/sort_layers.py)            *)
(*   SortAndGroupLayersPlugin  (src/plugins/sort_and_group_layers/...)     *)
(*                                                                         *)
(* The host objects the plugins drive are modelled as plain data:          *)
(*   - the layer tree root is a sequence of nodes; a node is a record      *)
(*     (kind, id, name, vis, exp, mutex, prop, kids);                      *)
(*   - the project's map-layer registry is the set of registered ids;      *)
(*   - the layer-tree-registry bridge is a flag; as the plugins' comments  *)
(*     state, removing tree nodes while it is enabled de-registers the     *)
(*     layers that are left without a node in the tree.                    *)
(* Strings are sequences of code points (ASCII, but for what a user may    *)
(* type at a prompt), compared as Python compares str; a sort key is a     *)
(* sequence of integers compared                                           *)
(* lexicographically, which orders str, int, float and (int, str) keys as  *)
(* Python does.  os.path is posixpath.                                     *)
(***************************************************************************)
EXTENDS Integers, Sequences, FiniteSets, TLC

VARIABLES
    plugin,     \* which plugin this QGIS profile has installed: "SG" or "SL"
    phase,      \* plugin lifecycle: "new", "gui", "nomenu", "unloaded"
    root,       \* QgsProject.instance().layerTreeRoot().children()
    registry,   \* ids of QgsProject.instance().mapLayers()
    bridge,     \* layerTreeRegistryBridge().isEnabled()
    snapshot,   \* original_order_nodes / original_order_clones: [saved, nodes]
    savedLayers,\* _saved_layers of the Sort and Group plugin: [saved, ids]
    pc,         \* position inside the running handler ("idle" between handlers)
    frame,      \* locals of the running handler
    msg,        \* TRUE when the last handler showed the information box
    hist,       \* history: the last handler and the trees it started from
    environ,    \* deploy_plugins.py: os.environ, key -> value
    disk,       \* deploy_plugins.py: the part of the file system it looks at
    stdin,      \* deploy_plugins.py: what the console will answer to input()
    call,       \* deploy_plugins.py: the running function, its locals, result
    atCall      \* history: what the running function was called with

pluginVars == <<plugin, phase, root, registry, bridge, snapshot, savedLayers,
                pc, frame, msg, hist>>

deployVars == <<environ, disk, stdin, call, atCall>>

vars == <<pluginVars, deployVars>>

\* ---------------------------------------------------------------- strings

\* Python str < str, tuple < tuple
LexLess(a, b) ==
    \/ \E i \in 1..Len(a) :
          /\ i <= Len(b)
          /\ \A j \in 1..(i - 1) : a[j] = b[j]
          /\ a[i] < b[i]
    \/ /\ Len(a) < Len(b)
       /\ \A j \in 1..Len(a) : a[j] = b[j]

\* str.lower()
Lower(s) == [i \in 1..Len(s) |-> IF s[i] \in 65..90 THEN s[i] + 32 ELSE s[i]]

\* str.startswith(p)
StartsWith(s, p) ==
    /\ Len(p) <= Len(s)
    /\ \A i \in 1..Len(p) : s[i] = p[i]

\* s[from:] with a 0-based start
Slice(s, from) == IF from >= Len(s) THEN <<>> ELSE SubSeq(s, from + 1, Len(s))

\* str.find(sub): 0-based index of the first occurrence, -1 if none
Find(s, sub) ==
    LET hits == {i \in 0..(Len(s) - Len(sub)) :
                    \A j \in 1..Len(sub) : s[i + j] = sub[j]}
    IN IF hits = {} THEN -1 ELSE CHOOSE i \in hits : \A k \in hits : i <= k

\* str.rfind(ch) for one character
RFind(s, ch) ==
    LET hits == {i \in 0..(Len(s) - 1) : s[i + 1] = ch}
    IN IF hits = {} THEN -1 ELSE CHOOSE i \in hits : \A k \in hits : i >= k

IsSpace(c) == c \in {9, 10, 11, 12, 13, 32}

\* str.strip()
Strip(s) ==
    LET keep == {i \in 1..Len(s) : ~IsSpace(s[i])}
    IN IF keep = {} THEN <<>>
       ELSE SubSeq(s, CHOOSE i \in keep : \A k \in keep : i <= k,
                      CHOOSE i \in keep : \A k \in keep : i >= k)

\* str.rstrip("/")
RStripSlash(s) ==
    LET keep == {i \in 1..Len(s) : s[i] # 47}
    IN IF keep = {} THEN <<>>
       ELSE SubSeq(s, 1, CHOOSE i \in keep : \A k \in keep : i >= k)

\* str.split(ch)[0]
SplitHead(s, ch) ==
    LET i == Find(s, <<ch>>) IN IF i < 0 THEN s ELSE SubSeq(s, 1, i)

\* str.split("/")
RECURSIVE SplitSlash(_)
SplitSlash(s) ==
    LET i == Find(s, <<47>>)
    IN IF i < 0 THEN <<s>>
       ELSE <<SubSeq(s, 1, i)>> \o SplitSlash(Slice(s, i + 1))

\* "/".join(comps)
RECURSIVE JoinSlash(_)
JoinSlash(comps) ==
    IF comps = <<>> THEN <<>>
    ELSE IF Len(comps) = 1 THEN comps[1]
    ELSE comps[1] \o <<47>> \o JoinSlash(Tail(comps))

\* posixpath.dirname
Dirname(p) ==
    LET head == SubSeq(p, 1, RFind(p, 47) + 1)
    IN IF head # <<>> /\ \E i \in 1..Len(head) : head[i] # 47
       THEN RStripSlash(head) ELSE head

\* posixpath.basename
Basename(p) == Slice(p, RFind(p, 47) + 1)

\* posixpath.join(a, b)
PathJoin(a, b) ==
    IF StartsWith(b, <<47>>) THEN b
    ELSE IF a = <<>> \/ a[Len(a)] = 47 THEN a \o b
    ELSE a \o <<47>> \o b

\* the component loop of posixpath.normpath
RECURSIVE NormComps(_, _, _)
NormComps(comps, acc, slashes) ==
    IF comps = <<>> THEN acc
    ELSE LET c == Head(comps) IN
         IF c = <<>> \/ c = <<46>> THEN NormComps(Tail(comps), acc, slashes)
         ELSE IF \/ c # <<46, 46>>
                 \/ (slashes = 0 /\ acc = <<>>)
                 \/ (acc # <<>> /\ acc[Len(acc)] = <<46, 46>>)
              THEN NormComps(Tail(comps), Append(acc, c), slashes)
         ELSE IF acc # <<>>
              THEN NormComps(Tail(comps), SubSeq(acc, 1, Len(acc) - 1), slashes)
         ELSE NormComps(Tail(comps), acc, slashes)

\* posixpath.normpath
Normpath(p) ==
    IF p = <<>> THEN <<46>>
    ELSE LET slashes == IF ~StartsWith(p, <<47>>) THEN 0
                        ELSE IF StartsWith(p, <<47, 47>>) /\ ~StartsWith(p, <<47, 47, 47>>)
                             THEN 2 ELSE 1
             body == JoinSlash(NormComps(SplitSlash(p), <<>>, slashes))
             full == [i \in 1..slashes |-> 47] \o body
         IN IF full = <<>> THEN <<46>> ELSE full

\* ------------------------------------------------- the project's layers

\* The map layers of the projects considered.  A tree node with id 0 refers
\* to a layer that is not in the registry: its layer() is None.
LayerIds == 1..8

\* layer.name()
LayerName(l) ==
    CASE l = 1 -> <<98>>        \* "b"
      [] l = 2 -> <<65>>        \* "A"
      [] l = 3 -> <<97>>        \* "a"
      [] l = 4 -> <<99>>        \* "c"
      [] l = 5 -> <<100>>       \* "d"
      [] OTHER -> <<66>>        \* "B"

\* the layer's class: QgsVectorLayer, QgsRasterLayer or another QgsMapLayer
LayerClass(l) ==
    CASE l = 3 -> "raster"
      [] l = 5 -> "other"
      [] OTHER -> "vector"

\* layer.geometryType() of a vector layer
LayerGeom(l) ==
    CASE l = 1 -> "point"
      [] l = 2 -> "line"
      [] l = 4 -> "polygon"
      [] OTHER -> "null"

\* layer.featureCount()
LayerCount(l) ==
    CASE l = 1 -> 5
      [] l = 2 -> 5
      [] l = 4 -> 0
      [] OTHER -> 7

\* layer.source()
LayerSource(l) ==
    CASE l = 1 -> <<47, 100, 47, 66>>                                  \* "/d/B"
      [] l = 2 -> <<47, 100, 47, 97, 124, 108>>                        \* "/d/a|l"
      [] l = 3 -> <<47, 101, 47, 100, 47, 99>>                         \* "/e/d/c"
      [] l = 4 -> <<102, 105, 108, 101, 58, 47, 47, 47, 68, 47, 97>>   \* "file:///D/a"
      [] l = 5 -> <<104, 116, 116, 112, 115, 58, 47, 47, 104, 47, 116>>\* "https://h/t"
      [] OTHER -> <<109>>                                              \* "m"

\* QgsProviderRegistry.instance().decodeUri(providerType, source): the
\* values under "path", "dbname", "filename", "url" (empty when absent);
\* raises is TRUE when the call raises instead.
Uri(p, d, f, u, r) == [path |-> p, dbname |-> d, filename |-> f, url |-> u, raises |-> r]

DecodeUri(l) ==
    CASE l = 1 -> Uri(LayerSource(1), <<>>, <<>>, <<>>, FALSE)
      [] l = 2 -> Uri(<<>>, <<>>, <<>>, <<>>, TRUE)
      [] l = 3 -> Uri(<<>>, LayerSource(3), <<>>, <<>>, FALSE)
      [] l = 4 -> Uri(LayerSource(4), <<>>, <<>>, <<>>, FALSE)
      [] l = 5 -> Uri(<<>>, <<>>, <<>>, LayerSource(5), FALSE)
      [] OTHER -> Uri(<<>>, <<>>, <<>>, <<>>, FALSE)

\* the files on disk: os.path.isfile, os.path.getmtime, os.path.getsize
IsFile(p) == p \in {<<47, 100, 47, 66>>, <<47, 100, 47, 97>>, <<47, 101, 47, 100, 47, 99>>}
GetMtime(p) == IF p = <<47, 101, 47, 100, 47, 99>> THEN 1 ELSE 3
GetSize(p) == IF p = <<47, 100, 47, 97>> THEN 20 ELSE 10

\* ------------------------------------------------------------ tree nodes

LayerNode(l) ==
    [kind |-> "layer", id |-> l, name |-> <<>>, vis |-> (l % 2 = 1),
     exp |-> (l % 3 = 0), mutex |-> FALSE, prop |-> l % 2, kids |-> <<>>]

GroupNode(nm, v, e, m, p, ks) ==
    [kind |-> "group", id |-> -1, name |-> nm, vis |-> v, exp |-> e,
     mutex |-> m, prop |-> p, kids |-> ks]

\* QgsLayerTreeGroup(name): a new, empty group with default flags
NewGroup(nm) == GroupNode(nm, TRUE, TRUE, FALSE, 0, <<>>)

IsLayerNode(n) == n.kind = "layer"
IsGroupNode(n) == n.kind = "group"

\* node.layer() is None: the node's layer id is not in the registry
LayerIsNone(n, reg) == n.id \notin reg

\* isinstance(node, QgsLayerTreeLayer) and node.layer()
HasLayer(n, reg) == IsLayerNode(n) /\ ~LayerIsNone(n, reg)

\* node.clone(): a deep copy of the node with all its properties
Clone(n) == n

\* [node.clone() for node in nodes]
CloneAll(nodes) == [i \in 1..Len(nodes) |-> Clone(nodes[i])]

\* ------------------------------------- Sort and Group Layers: copy helpers

\* SortAndGroupLayersPlugin._make_layer_node: a new QgsLayerTreeLayer(layer)
\* that takes over the visibility and expanded flags only
MakeLayerNode(n, reg) ==
    IF LayerIsNone(n, reg) THEN Clone(n)
    ELSE [kind |-> "layer", id |-> n.id, name |-> <<>>, vis |-> n.vis,
          exp |-> n.exp, mutex |-> FALSE, prop |-> 0, kids |-> <<>>]

\* SortAndGroupLayersPlugin._copy_node
RECURSIVE CopyNode(_, _)
CopyNode(n, reg) ==
    IF IsLayerNode(n) THEN MakeLayerNode(n, reg)
    ELSE IF IsGroupNode(n)
         THEN GroupNode(n.name, n.vis, n.exp, n.mutex, 0,
                        [i \in 1..Len(n.kids) |-> CopyNode(n.kids[i], reg)])
    ELSE Clone(n)

CopyAll(nodes, reg) == [i \in 1..Len(nodes) |-> CopyNode(nodes[i], reg)]

\* SortAndGroupLayersPlugin._flatten_layer_nodes, on the children of a parent
RECURSIVE FlattenLayerNodes(_)
FlattenLayerNodes(children) ==
    IF children = <<>> THEN <<>>
    ELSE LET child == Head(children) IN
         (IF IsLayerNode(child) THEN <<child>>
          ELSE IF IsGroupNode(child) THEN FlattenLayerNodes(child.kids)
          ELSE <<>>) \o FlattenLayerNodes(Tail(children))

\* --------------------------------------------------- file path extraction

IsHttp(s) ==
    \/ StartsWith(s, <<104, 116, 116, 112, 58, 47, 47>>)          \* "http://"
    \/ StartsWith(s, <<104, 116, 116, 112, 115, 58, 47, 47>>)     \* "https://"

\* _get_file_path, attempt 1: on Windows file:///C:/... loses the slash
\* before the drive letter
DropDriveSlash(v) ==
    IF Len(v) > 2 /\ v[1] = 47 /\ v[3] = 58 THEN Slice(v, 1) ELSE v

\* _get_file_path, attempt 1: the file:// prefix is stripped
StripFileScheme(v) ==
    IF StartsWith(v, <<102, 105, 108, 101, 58, 47, 47>>)        \* "file://"
    THEN DropDriveSlash(Slice(v, 7)) ELSE v

\* _get_file_path, attempt 1: pure URLs are ignored
SkipHttp(v) == IF IsHttp(v) THEN <<>> ELSE v

\* one round of the key loop of _get_file_path: the path the value yields,
\* or the empty string when the loop moves on to the next key
UriValue(v) == IF v = <<>> THEN <<>> ELSE SkipHttp(StripFileScheme(v))

\* a or b, for strings
OrElse(a, b) == IF a # <<>> THEN a ELSE b

\* _get_file_path, attempt 2, SpatiaLite style: the text between the quotes
QuotedPath(rest, end) ==
    IF StartsWith(rest, <<39>>) /\ end > 0 THEN SubSeq(rest, 2, end) ELSE <<>>

DbnameRest(rest) == QuotedPath(rest, Find(Slice(rest, 1), <<39>>) + 1)

DbnamePath(source, start) ==
    IF start < 0 THEN <<>> ELSE DbnameRest(Strip(Slice(source, start + 7)))

\* _get_file_path, attempt 2: "path|layername=..." first
CandidateOr(candidate, source) ==
    IF candidate # <<>> /\ ~IsHttp(candidate) THEN candidate
    ELSE DbnamePath(source, Find(source, <<100, 98, 110, 97, 109, 101, 61>>))  \* "dbname="

\* attempt 2 of _get_file_path: parse the raw source string
SourcePath(source) == CandidateOr(Strip(SplitHead(source, 124)), source)

\* attempt 1 of _get_file_path: the first of the keys "path", "dbname",
\* "filename", "url" that yields a path; nothing when decodeUri raises
UriPath(u) ==
    IF u.raises THEN <<>>
    ELSE OrElse(UriValue(u.path),
                OrElse(UriValue(u.dbname),
                       OrElse(UriValue(u.filename), UriValue(u.url))))

\* SortAndGroupLayersPlugin._get_file_path
GetFilePath(l) == OrElse(UriPath(DecodeUri(l)), SourcePath(LayerSource(l)))

\* SortLayersPlugin._file_path_from_source
FilePathFromSource(source) == SplitHead(source, 124)

\* -------------------------------------------------------------- sort keys

\* _GEOMETRY_SORT_ORDER.get(layer.geometryType(), 99)
GeometrySortOrder(g) ==
    CASE g = "point" -> 0
      [] g = "line" -> 1
      [] g = "polygon" -> 2
      [] g = "null" -> 3
      [] g = "unknown" -> 4
      [] OTHER -> 99

\* the group names the plugin creates
PointLayers == <<80, 111, 105, 110, 116, 32, 76, 97, 121, 101, 114, 115>>
LineLayers == <<76, 105, 110, 101, 32, 76, 97, 121, 101, 114, 115>>
PolygonLayers == <<80, 111, 108, 121, 103, 111, 110, 32, 76, 97, 121, 101, 114, 115>>
NoGeometry == <<78, 111, 32, 71, 101, 111, 109, 101, 116, 114, 121>>
UnknownGeometry == <<85, 110, 107, 110, 111, 119, 110, 32, 71, 101, 111, 109, 101, 116, 114, 121>>
RasterLayers == <<82, 97, 115, 116, 101, 114, 32, 76, 97, 121, 101, 114, 115>>
OtherLayers == <<79, 116, 104, 101, 114, 32, 76, 97, 121, 101, 114, 115>>
OtherSources == <<79, 116, 104, 101, 114, 32, 83, 111, 117, 114, 99, 101, 115>>

\* _GEOMETRY_GROUP_NAMES.get(geom, "Other Layers")
GeometryGroupName(g) ==
    CASE g = "point" -> PointLayers
      [] g = "line" -> LineLayers
      [] g = "polygon" -> PolygonLayers
      [] g = "null" -> NoGeometry
      [] g = "unknown" -> UnknownGeometry
      [] OTHER -> OtherLayers

\* SortAndGroupLayersPlugin._key_file_path
SgKeyFilePath(n, reg) ==
    IF HasLayer(n, reg) THEN Lower(OrElse(GetFilePath(n.id), LayerSource(n.id)))
    ELSE IF IsGroupNode(n) THEN Lower(n.name)
    ELSE <<>>

\* SortLayersPlugin._key_file_path
SlKeyFilePath(n, reg) ==
    IF HasLayer(n, reg) THEN Lower(LayerSource(n.id))
    ELSE IF IsGroupNode(n) THEN Lower(n.name)
    ELSE <<>>

\* _key_alphabetical (the same in both plugins)
KeyAlphabetical(n, reg) ==
    IF HasLayer(n, reg) THEN Lower(LayerName(n.id))
    ELSE IF IsGroupNode(n) THEN Lower(n.name)
    ELSE <<>>

\* os.path.getmtime of an existing file, else 0.0
MtimeKey(fp) == IF fp # <<>> /\ IsFile(fp) THEN <<GetMtime(fp)>> ELSE <<0>>

\* os.path.getsize of an existing file, else -1
SizeKey(fp) == IF fp # <<>> /\ IsFile(fp) THEN <<GetSize(fp)>> ELSE <<-1>>

\* SortAndGroupLayersPlugin._key_file_date
SgKeyFileDate(n, reg) ==
    IF HasLayer(n, reg) THEN MtimeKey(GetFilePath(n.id)) ELSE <<0>>

\* SortLayersPlugin._key_file_date
SlKeyFileDate(n, reg) ==
    IF HasLayer(n, reg) THEN MtimeKey(FilePathFromSource(LayerSource(n.id)))
    ELSE <<0>>

\* SortAndGroupLayersPlugin._key_geometry
SgKeyGeometry(n, reg) ==
    IF HasLayer(n, reg)
    THEN (CASE LayerClass(n.id) = "vector" -> <<GeometrySortOrder(LayerGeom(n.id))>>
            [] LayerClass(n.id) = "raster" -> <<90>>
            [] OTHER -> <<95>>) \o Lower(LayerName(n.id))
    ELSE IF IsGroupNode(n) THEN <<100>> \o Lower(n.name)
    ELSE <<999>>

\* SortLayersPlugin._key_geometry
SlKeyGeometry(n, reg) ==
    IF HasLayer(n, reg)
    THEN (IF LayerClass(n.id) = "vector"
          THEN <<GeometrySortOrder(LayerGeom(n.id))>>
          ELSE <<90>>) \o Lower(LayerName(n.id))
    ELSE IF IsGroupNode(n) THEN <<100>> \o Lower(n.name)
    ELSE <<999>>

\* _key_feature_count (the same in both plugins)
KeyFeatureCount(n, reg) ==
    IF HasLayer(n, reg)
    THEN IF LayerClass(n.id) = "vector" THEN <<LayerCount(n.id)>> ELSE <<-1>>
    ELSE <<-2>>

\* SortAndGroupLayersPlugin._key_file_size
SgKeyFileSize(n, reg) ==
    IF HasLayer(n, reg) THEN SizeKey(GetFilePath(n.id)) ELSE <<-1>>

\* SortLayersPlugin._key_file_size
SlKeyFileSize(n, reg) ==
    IF HasLayer(n, reg) THEN SizeKey(FilePathFromSource(LayerSource(n.id)))
    ELSE <<-1>>

\* the sort actions of the menus: the key function and reverse flag each
\* sort_by_* passes to _reorder_layers
SortActions ==
    { [key |-> "file_path", reverse |-> FALSE],
      [key |-> "alphabetical", reverse |-> FALSE],
      [key |-> "file_date", reverse |-> TRUE],
      [key |-> "geometry", reverse |-> FALSE],
      [key |-> "feature_count", reverse |-> TRUE],
      [key |-> "file_size", reverse |-> TRUE] }

\* key_func(node) for the key function a sort action of plugin pl names
KeyFunc(pl, k, n, reg) ==
    CASE k = "file_path" -> IF pl = "SG" THEN SgKeyFilePath(n, reg) ELSE SlKeyFilePath(n, reg)
      [] k = "alphabetical" -> KeyAlphabetical(n, reg)
      [] k = "file_date" -> IF pl = "SG" THEN SgKeyFileDate(n, reg) ELSE SlKeyFileDate(n, reg)
      [] k = "geometry" -> IF pl = "SG" THEN SgKeyGeometry(n, reg) ELSE SlKeyGeometry(n, reg)
      [] k = "feature_count" -> KeyFeatureCount(n, reg)
      [] OTHER -> IF pl = "SG" THEN SgKeyFileSize(n, reg) ELSE SlKeyFileSize(n, reg)

\* ---------------------------------------------------------------- sorting

\* fault: a descending sort done as an ascending sort that is then reversed,
\* which turns the order of equal keys around
ComesBeforeUnstable(pairs, j, i, reverse) ==
    LET kj == pairs[j][1]
        ki == pairs[i][1]
    IN \/ IF reverse THEN LexLess(ki, kj) ELSE LexLess(kj, ki)
       \/ ~LexLess(ki, kj) /\ ~LexLess(kj, ki) /\ (IF reverse THEN i < j ELSE j < i)

\* list.sort / sorted on (key, item) pairs is a stable sort: pair j ends up
\* before pair i when its key is smaller (with reverse: greater), or when
\* the keys are equal and j was before i, in both directions
ComesBefore(pairs, j, i, reverse) ==
    LET kj == pairs[j][1]
        ki == pairs[i][1]
    IN \/ IF reverse THEN LexLess(ki, kj) ELSE LexLess(kj, ki)
       \/ ~LexLess(ki, kj) /\ ~LexLess(kj, ki) /\ j < i

\* a list is built once: its elements (the keys of a sort among them) are
\* computed when the list is made, not each time one is read
Evaluated(list) == list \o <<>>

\* the sorted list: each pair at the position its predecessors leave it
RankSort(pairs, reverse) ==
    [p \in 1..Len(pairs) |->
        pairs[CHOOSE i \in 1..Len(pairs) :
                 Cardinality({j \in 1..Len(pairs) : ComesBefore(pairs, j, i, reverse)}) = p - 1]]

\* list.sort / sorted on a list of (key, item) pairs
SortPairs(pairs, reverse) == Evaluated(RankSort(Evaluated(pairs), reverse))

\* the items of a list of (key, item) pairs
Items(pairs) == [i \in 1..Len(pairs) |-> pairs[i][2]]

\* sorted(nodes, key=key_func, reverse=reverse)
Sorted(pl, nodes, k, reverse, reg) ==
    Items(SortPairs([i \in 1..Len(nodes) |-> <<KeyFunc(pl, k, nodes[i], reg), nodes[i]>>],
                    reverse))

\* --------------------------------------------------------------- grouping

\* the (sort_order, display_name) category group_by_geometry gives a node
GeometryCategory(n, reg) ==
    IF LayerIsNone(n, reg) THEN [order |-> 99, name |-> OtherLayers]
    ELSE IF LayerClass(n.id) = "vector"
         THEN [order |-> GeometrySortOrder(LayerGeom(n.id)),
               name |-> GeometryGroupName(LayerGeom(n.id))]
    ELSE IF LayerClass(n.id) = "raster" THEN [order |-> 90, name |-> RasterLayers]
    ELSE [order |-> 99, name |-> OtherLayers]

\* the items of a list at the positions in keep, in the order of the list
RECURSIVE SelectNodes(_, _, _)
SelectNodes(nodes, keep, i) ==
    IF i > Len(nodes) THEN <<>>
    ELSE (IF i \in keep THEN <<nodes[i]>> ELSE <<>>) \o SelectNodes(nodes, keep, i + 1)

InCategory(n, cat, reg) == GeometryCategory(n, reg) = cat

\* fault: the categories taken in descending order
RECURSIVE CategoriesDescending(_)
CategoriesDescending(cats) ==
    IF cats = {} THEN <<>>
    ELSE LET first == CHOOSE c \in cats : \A d \in cats :
                          ~LexLess(<<c.order>> \o c.name, <<d.order>> \o d.name)
         IN <<first>> \o CategoriesDescending(cats \ {first})

\* sorted(categories): the keys of the dict in tuple order
RECURSIVE SortedCategories(_)
SortedCategories(cats) ==
    IF cats = {} THEN <<>>
    ELSE LET first == CHOOSE c \in cats : \A d \in cats :
                          ~LexLess(<<d.order>> \o d.name, <<c.order>> \o c.name)
         IN <<first>> \o SortedCategories(cats \ {first})

\* group_by_geometry: one group per category, in the order of the keys
CategoryGroups(all, cats, reg) ==
    [c \in 1..Len(cats) |->
        [NewGroup(cats[c].name) EXCEPT
            !.kids = CopyAll(SelectNodes(all, {i \in 1..Len(all) :
                                 InCategory(all[i], cats[c], reg)}, 1), reg)]]

\* the new_children list group_by_geometry builds from the flattened nodes
GeometryGroups(all, reg) ==
    CategoryGroups(all,
        SortedCategories({GeometryCategory(all[i], reg) : i \in 1..Len(all)}), reg)

\* group_by_folder: the file path has a directory component
PathHasFolder(fp) == fp # <<>> /\ Dirname(fp) # <<>>

\* group_by_folder: the node has a layer whose file path has a directory part
HasFolder(n, reg) == ~LayerIsNone(n, reg) /\ PathHasFolder(GetFilePath(n.id))

\* group_by_folder: folder = os.path.dirname(file_path)
NodeFolder(n) == Dirname(GetFilePath(n.id))
\* fault: the filename used as it is, without lower()
FilenameAsIs(n) == Basename(GetFilePath(n.id))

\* group_by_folder: filename = os.path.basename(file_path).lower()
NodeFilename(n) == Lower(Basename(GetFilePath(n.id)))

InFolder(n, folder, reg) == HasFolder(n, reg) /\ NodeFolder(n) = folder
InOther(n, reg) == ~HasFolder(n, reg)

\* list(folders.keys()): the folders in the order they were first met
RECURSIVE FolderKeys(_, _, _)
FolderKeys(nodes, acc, reg) ==
    IF nodes = <<>> THEN acc
    ELSE LET n == Head(nodes) IN
         FolderKeys(Tail(nodes),
                    IF HasFolder(n, reg) /\ \A i \in 1..Len(acc) : acc[i] # NodeFolder(n)
                    THEN Append(acc, NodeFolder(n)) ELSE acc,
                    reg)

\* _unique_folder_names: base = os.path.basename(norm[fp]) or norm[fp]
FolderBase(q) == OrElse(Basename(Normpath(q)), Normpath(q))

\* _unique_folder_names: parent/base, or the normalised path without parent
ComboOf(parent, base, norm) ==
    IF parent # <<>> THEN PathJoin(parent, base) ELSE norm

FolderCombo(q) ==
    ComboOf(Basename(Dirname(Normpath(q))), FolderBase(q), Normpath(q))

\* _unique_folder_names: the name chosen among the paths that share the base
Disambiguate(fp, paths, sameBase) ==
    IF Cardinality(sameBase) = 1 THEN FolderBase(fp)
    ELSE IF Cardinality({i \in sameBase : FolderCombo(paths[i]) = FolderCombo(fp)}) = 1
         THEN FolderCombo(fp)
    ELSE Normpath(fp)

\* SortAndGroupLayersPlugin._unique_folder_names, for one of the folder paths
UniqueFolderName(fp, paths) ==
    Disambiguate(fp, paths, {i \in 1..Len(paths) : FolderBase(paths[i]) = FolderBase(fp)})

\* group_by_folder: the copies of the layers of one folder, by filename
CopiesByFilename(members, reg) ==
    CopyAll(Items(SortPairs([i \in 1..Len(members) |->
                                <<NodeFilename(members[i]), members[i]>>], FALSE)), reg)

FolderMembers(all, folder, reg) ==
    CopiesByFilename(SelectNodes(all, {i \in 1..Len(all) : InFolder(all[i], folder, reg)}, 1),
                     reg)

\* group_by_folder: the "Other Sources" group, when there is a layer for it
OtherGroup(other, reg) ==
    IF other # <<>>
    THEN <<[NewGroup(OtherSources) EXCEPT !.kids = CopyAll(other, reg)]>>
    ELSE <<>>

\* group_by_folder: one group per folder, in the order of the display names
NamedGroups(all, names, folders, reg) ==
    [g \in 1..Len(folders) |->
        [NewGroup(names[g]) EXCEPT !.kids = FolderMembers(all, folders[g], reg)]]

\* group_by_folder: the folder groups, sorted by lower-cased display name
FolderGroupsOf(all, paths, reg) ==
    LET byName == SortPairs([i \in 1..Len(paths) |->
                      <<Lower(UniqueFolderName(paths[i], paths)),
                        <<UniqueFolderName(paths[i], paths), paths[i]>> >>], FALSE)
    IN NamedGroups(all, [g \in 1..Len(paths) |-> byName[g][2][1]],
                   [g \in 1..Len(paths) |-> byName[g][2][2]], reg)

\* the new_children list group_by_folder builds from the flattened nodes
FolderGroups(all, reg) ==
    FolderGroupsOf(all, FolderKeys(all, <<>>, reg), reg)
    \o OtherGroup(SelectNodes(all, {i \in 1..Len(all) : InOther(all[i], reg)}, 1), reg)

\* _sort_with_groups: the (key, new group) pair appended for a group, whose
\* key is derived from its first child
KeyedGroup(child, sortedKids, k, reg) ==
    << IF sortedKids # <<>> THEN KeyFunc("SG", k, sortedKids[1], reg)
       ELSE KeyFunc("SG", k, child, reg),
       GroupNode(child.name, child.vis, child.exp, child.mutex, 0,
                 CopyAll(sortedKids, reg)) >>

\* _sort_with_groups: the (key, new node) pair appended for one child
KeyedNode(child, k, reverse, reg) ==
    IF IsGroupNode(child)
    THEN KeyedGroup(child, Sorted("SG", child.kids, k, reverse, reg), k, reg)
    ELSE <<KeyFunc("SG", k, child, reg), CopyNode(child, reg)>>

\* SortAndGroupLayersPlugin._sort_with_groups
SortWithGroups(children, k, reverse, reg) ==
    Items(SortPairs([i \in 1..Len(children) |->
                        KeyedNode(children[i], k, reverse, reg)], reverse))

\* the new_nodes list SortAndGroupLayersPlugin._reorder_layers builds
SgNewNodes(children, k, reverse, reg) ==
    IF \E i \in 1..Len(children) : IsGroupNode(children[i])
    THEN SortWithGroups(children, k, reverse, reg)
    ELSE CopyAll(Sorted("SG", children, k, reverse, reg), reg)

\* ------------------------------------------------------------ the project

\* the largest number of top-level nodes of a project's layer tree
MaxTop == 3

\* the layer ids of the layer nodes under a node
RECURSIVE IdsUnder(_)
IdsUnder(n) ==
    IF IsLayerNode(n) THEN {n.id}
    ELSE UNION {IdsUnder(n.kids[i]) : i \in 1..Len(n.kids)}

IdsIn(nodes) == UNION {IdsUnder(nodes[i]) : i \in 1..Len(nodes)}

\* the top-level nodes the projects are made of: two layers, a node whose
\* layer is not registered, a group, a group with a nested group, an empty
\* group.  Every layer has one node.
NodePool ==
    << LayerNode(1),
       LayerNode(2),
       LayerNode(0),
       GroupNode(<<71>>, TRUE, FALSE, FALSE, 1,
                 <<LayerNode(4), LayerNode(3), LayerNode(8)>>),
       GroupNode(<<122>>, FALSE, TRUE, FALSE, 0,
                 <<GroupNode(<<105>>, TRUE, TRUE, TRUE, 1,
                             <<LayerNode(6), LayerNode(5)>>),
                   LayerNode(7)>>),
       GroupNode(<<69>>, TRUE, TRUE, FALSE, 0, <<>>) >>

\* the nodes of the pool at the positions in keep, in the order of the pool
RECURSIVE PickNodes(_, _)
PickNodes(keep, i) ==
    IF i > Len(NodePool) THEN <<>>
    ELSE (IF i \in keep THEN <<NodePool[i]>> ELSE <<>>) \o PickNodes(keep, i + 1)

\* the layer trees of the projects: up to MaxTop nodes of the pool
ProjectTrees ==
    { PickNodes(keep, 1) :
        keep \in {k \in SUBSET (1..Len(NodePool)) : Cardinality(k) <= MaxTop} }

NoSnapshot == [saved |-> FALSE, nodes |-> <<>>]
NoLayers == [saved |-> FALSE, ids |-> {}]
NoFrame == [new |-> <<>>, orig |-> 0, saved |-> {}, restore |-> FALSE]
NoOp == [kind |-> "none", key |-> "", reverse |-> FALSE]
NoHist == [op |-> NoOp, pre |-> <<>>, base |-> NoSnapshot, seq |-> FALSE,
           dropped |-> FALSE, raises |-> 0, unwound |-> FALSE]

\* deploy_plugins.py is a script of its own: it does not run in a QGIS session
DeployNotRun ==
    /\ environ = <<>>
    /\ disk = <<>>
    /\ stdin = <<>>
    /\ call = <<>>
    /\ atCall = <<>>

\* classFactory and SortAndGroupLayersPlugin.__init__ /
\* SortLayersPlugin.__init__, in a session that starts with the empty project
Init ==
    /\ plugin \in {"SG", "SL"}
    /\ phase = "new"
    /\ root = <<>>
    /\ registry = {}
    /\ bridge = TRUE
    /\ snapshot = NoSnapshot
    /\ savedLayers = NoLayers
    /\ pc = "idle"
    /\ frame = NoFrame
    /\ msg = FALSE
    /\ hist = NoHist
    /\ DeployNotRun

\* history kept for the properties.  base is the tree before the first sort
\* or group of a sequence on a non-empty tree (seq: such a sequence is under
\* way); op and pre are the running handler and the tree it started from;
\* dropped says that the last clearing of the project discarded a snapshot
\* and no handler has returned since; raises counts the handlers that an
\* exception has ended, unwound says that the last of them was left through
\* a finally clause.
Sequence(changes) ==
    [hist EXCEPT
        !.base = IF changes /\ ~hist.seq /\ root # <<>>
                 THEN [saved |-> TRUE, nodes |-> root] ELSE hist.base,
        !.seq = IF changes /\ root # <<>> THEN TRUE ELSE hist.seq]

Started(op, changes) == [Sequence(changes) EXCEPT !.op = op, !.pre = root]

Finished == [hist EXCEPT !.op = NoOp, !.pre = <<>>, !.dropped = FALSE,
                         !.seq = IF frame.restore THEN FALSE ELSE hist.seq]

\* ------------------------------------------------------ plugin lifecycle

\* initGui: without a Layer menu it returns before anything is connected
InitGui(menuFound) ==
    /\ pc = "idle" /\ phase = "new"
    /\ phase' = IF menuFound THEN "gui" ELSE "nomenu"
    /\ UNCHANGED <<deployVars, plugin, root, registry, bridge, snapshot, savedLayers, pc,
                   frame, msg, hist>>

\* unload
Unload ==
    /\ pc = "idle" /\ phase \in {"gui", "nomenu"}
    /\ phase' = "unloaded"
    /\ snapshot' = NoSnapshot
    /\ savedLayers' = NoLayers
    /\ hist' = NoHist
    /\ msg' = FALSE
    /\ UNCHANGED <<deployVars, plugin, root, registry, bridge, pc, frame>>

\* fault: _save_original_order without its "is None" guard, so that every
\* sort or group overwrites the snapshot
SgSaveAlways(snap, children, reg) ==
    [saved |-> TRUE, nodes |-> CopyAll(children, reg)]

\* _save_original_order of the Sort and Group plugin: the new snapshot
SgSaveOriginalOrder(snap, children, reg) ==
    IF snap.saved THEN snap
    ELSE [saved |-> TRUE, nodes |-> CopyAll(children, reg)]

\* _save_original_order of the Sort and Group plugin: the new _saved_layers
SgSaveLayers(snap, layers, reg) ==
    IF snap.saved THEN layers ELSE [saved |-> TRUE, ids |-> reg]

\* fault: _save_original_order without its "is None" guard
SlSaveAlways(snap, children) == [saved |-> TRUE, nodes |-> CloneAll(children)]

\* _save_original_order of the Sort Layers plugin
SlSaveOriginalOrder(snap, children) ==
    IF snap.saved THEN snap
    ELSE [saved |-> TRUE, nodes |-> CloneAll(children)]

\* fault: _clear_saved_order leaves the snapshot in place
KeepSavedOrder(connected, snap) == snap

\* _clear_saved_order, the slot initGui connects to the project's cleared
\* signal: the snapshot it leaves
ClearSavedOrder(connected, snap) == IF connected THEN NoSnapshot ELSE snap

\* QgsProject.cleared: the project is closed, which leaves the empty
\* project; the slot connected in initGui runs
ProjectCleared ==
    /\ pc = "idle"
    /\ root' = <<>>
    /\ registry' = {}
    /\ snapshot' = ClearSavedOrder(phase = "gui", snapshot)
    /\ savedLayers' = IF phase = "gui" THEN NoLayers ELSE savedLayers
    /\ hist' = [NoHist EXCEPT !.dropped = (phase = "gui" /\ snapshot.saved)]
    /\ msg' = FALSE
    /\ UNCHANGED <<deployVars, plugin, phase, bridge, pc, frame>>

\* a project is read into the empty project: its layers are registered and
\* its layer tree is built
OpenProject(tree) ==
    /\ pc = "idle"
    /\ root = <<>> /\ registry = {}
    /\ tree # <<>>
    /\ root' = tree
    /\ registry' = IdsIn(tree) \cap LayerIds
    /\ hist' = [NoHist EXCEPT !.dropped = hist.dropped]
    /\ msg' = FALSE
    /\ UNCHANGED <<deployVars, plugin, phase, bridge, snapshot, savedLayers, pc, frame>>

\* a handler that returns without touching the tree
Return(changes, box) ==
    /\ hist' = [Sequence(changes) EXCEPT !.dropped = FALSE]
    /\ msg' = box
    /\ UNCHANGED <<deployVars, plugin, phase, root, registry, bridge, snapshot, savedLayers,
                   pc, frame>>

\* the bridge's reaction to nodes leaving the tree: while it is enabled, the
\* layers left without a node in the tree are removed from the registry
AfterRemoval(reg, enabled, removed, remaining) ==
    IF enabled THEN reg \ (IdsIn(removed) \ IdsIn(remaining)) ELSE reg

\* fault: restore_original_order without its "is None" check
AlwaysRestore(snap) == FALSE

\* "if self.original_order_nodes is None" / "if self.original_order_clones
\* is None" in restore_original_order
NothingToRestore(snap) == ~snap.saved

\* ------------------------------------------- Sort and Group Layers plugin

SgReady == plugin = "SG" /\ phase = "gui" /\ pc = "idle"

\* fault: _rebuild_tree leaves the bridge enabled
SgBridgeLeftOn == TRUE

\* _rebuild_tree: bridge.setEnabled(False), the bridge's new state
SgSetEnabledFalse == FALSE

\* _rebuild_tree up to the try statement: saved_layers and original_count
\* are taken, phase 1 appends the new children behind the original ones,
\* and phase 2 begins by disabling the bridge
SgRebuildStart(newChildren, reg, isRestore) ==
    /\ frame' = [new |-> newChildren, orig |-> Len(root), saved |-> reg,
                 restore |-> isRestore]
    /\ root' = root \o newChildren
    /\ bridge' = SgSetEnabledFalse
    /\ pc' = "sg_remove"

\* sort_by_file_path .. sort_by_file_size -> _reorder_layers(key_func, reverse)
SgSort(a) ==
    /\ SgReady
    /\ IF root = <<>> THEN Return(TRUE, FALSE)
       ELSE /\ snapshot' = SgSaveOriginalOrder(snapshot, root, registry)
            /\ savedLayers' = SgSaveLayers(snapshot, savedLayers, registry)
            /\ SgRebuildStart(SgNewNodes(root, a.key, a.reverse, registry), registry, FALSE)
            /\ hist' = Started([kind |-> "sort", key |-> a.key, reverse |-> a.reverse], TRUE)
            /\ msg' = FALSE
            /\ UNCHANGED <<deployVars, plugin, phase, registry>>

\* group_by_geometry
SgGroupByGeometry ==
    /\ SgReady
    /\ IF FlattenLayerNodes(root) = <<>> THEN Return(TRUE, FALSE)
       ELSE /\ snapshot' = SgSaveOriginalOrder(snapshot, root, registry)
            /\ savedLayers' = SgSaveLayers(snapshot, savedLayers, registry)
            /\ SgRebuildStart(GeometryGroups(FlattenLayerNodes(root), registry),
                              registry, FALSE)
            /\ hist' = Started([NoOp EXCEPT !.kind = "group_geometry"], TRUE)
            /\ msg' = FALSE
            /\ UNCHANGED <<deployVars, plugin, phase, registry>>

\* group_by_folder
SgGroupByFolder ==
    /\ SgReady
    /\ IF FlattenLayerNodes(root) = <<>> THEN Return(TRUE, FALSE)
       ELSE /\ snapshot' = SgSaveOriginalOrder(snapshot, root, registry)
            /\ savedLayers' = SgSaveLayers(snapshot, savedLayers, registry)
            /\ SgRebuildStart(FolderGroups(FlattenLayerNodes(root), registry),
                              registry, FALSE)
            /\ hist' = Started([NoOp EXCEPT !.kind = "group_folder"], TRUE)
            /\ msg' = FALSE
            /\ UNCHANGED <<deployVars, plugin, phase, registry>>

\* restore_original_order of the Sort and Group plugin: without a snapshot
\* it only shows the information box; else it re-registers the saved layers
\* and rebuilds the tree from copies of the saved nodes
SgRestore ==
    /\ SgReady
    /\ IF NothingToRestore(snapshot) THEN Return(FALSE, TRUE)
       ELSE /\ registry' = registry \cup savedLayers.ids
            /\ SgRebuildStart(CopyAll(snapshot.nodes, registry \cup savedLayers.ids),
                              registry \cup savedLayers.ids, TRUE)
            /\ hist' = Started([NoOp EXCEPT !.kind = "restore"], FALSE)
            /\ msg' = FALSE
            /\ UNCHANGED <<deployVars, plugin, phase, snapshot, savedLayers>>

\* _rebuild_tree phase 2, the body of the try statement: the loop removes
\* the original children, the safety net re-registers the layers that were
\* lost
SgRemoveOriginals ==
    /\ plugin = "SG" /\ pc = "sg_remove"
    /\ root' = SubSeq(root, frame.orig + 1, Len(root))
    /\ registry' = AfterRemoval(registry, bridge, SubSeq(root, 1, frame.orig),
                                SubSeq(root, frame.orig + 1, Len(root)))
                   \cup frame.saved
    /\ pc' = "sg_finish"
    /\ UNCHANGED <<deployVars, plugin, phase, bridge, snapshot, savedLayers, frame, msg, hist>>

\* _rebuild_tree: the finally clause and resolveReferences;
\* restore_original_order then clears the saved order
SgFinish ==
    /\ plugin = "SG" /\ pc = "sg_finish"
    /\ bridge' = TRUE
    /\ snapshot' = IF frame.restore THEN NoSnapshot ELSE snapshot
    /\ savedLayers' = IF frame.restore THEN NoLayers ELSE savedLayers
    /\ hist' = Finished
    /\ frame' = NoFrame
    /\ pc' = "idle"
    /\ UNCHANGED <<deployVars, plugin, phase, root, registry, msg>>

\* ------------------------------------------------------ Sort Layers plugin

SlReady == plugin = "SL" /\ phase = "gui" /\ pc = "idle"

\* fault: the Sort Layers plugin leaves the bridge enabled
SlBridgeLeftOn == TRUE

\* _reorder_layers / restore_original_order: bridge.setEnabled(False), the
\* bridge's new state
SlSetEnabledFalse == FALSE

\* sort_by_* -> _reorder_layers(key_func, reverse), up to the try statement
SlSort(a) ==
    /\ SlReady
    /\ IF root = <<>> THEN Return(TRUE, FALSE)
       ELSE /\ snapshot' = SlSaveOriginalOrder(snapshot, root)
            /\ frame' = [NoFrame EXCEPT !.new =
                            CloneAll(Sorted("SL", root, a.key, a.reverse, registry))]
            /\ bridge' = SlSetEnabledFalse
            /\ pc' = "sl_remove"
            /\ hist' = Started([kind |-> "sort", key |-> a.key, reverse |-> a.reverse], TRUE)
            /\ msg' = FALSE
            /\ UNCHANGED <<deployVars, plugin, phase, root, registry, savedLayers>>

\* restore_original_order of the Sort Layers plugin, up to the try statement
SlRestore ==
    /\ SlReady
    /\ IF NothingToRestore(snapshot) THEN Return(FALSE, TRUE)
       ELSE /\ frame' = [NoFrame EXCEPT !.new = CloneAll(snapshot.nodes),
                                         !.restore = TRUE]
            /\ bridge' = SlSetEnabledFalse
            /\ pc' = "sl_remove"
            /\ hist' = Started([NoOp EXCEPT !.kind = "restore"], FALSE)
            /\ msg' = FALSE
            /\ UNCHANGED <<deployVars, plugin, phase, root, registry, snapshot, savedLayers>>

\* root.removeAllChildren()
SlRemoveAllChildren ==
    /\ plugin = "SL" /\ pc = "sl_remove"
    /\ root' = <<>>
    /\ registry' = AfterRemoval(registry, bridge, root, <<>>)
    /\ pc' = "sl_add"
    /\ UNCHANGED <<deployVars, plugin, phase, bridge, snapshot, savedLayers, frame, msg, hist>>

\* the loop of root.addChildNode(clone)
SlAddClones ==
    /\ plugin = "SL" /\ pc = "sl_add"
    /\ root' = root \o frame.new
    /\ pc' = "sl_finish"
    /\ UNCHANGED <<deployVars, plugin, phase, registry, bridge, snapshot, savedLayers, frame,
                   msg, hist>>

\* the finally clause; restore_original_order then clears the saved order
SlFinish ==
    /\ plugin = "SL" /\ pc = "sl_finish"
    /\ bridge' = TRUE
    /\ snapshot' = IF frame.restore THEN NoSnapshot ELSE snapshot
    /\ hist' = Finished
    /\ frame' = NoFrame
    /\ pc' = "idle"
    /\ UNCHANGED <<deployVars, plugin, phase, root, registry, savedLayers, msg>>

\* ---------------------------------------------------------- specification

Next ==
    \/ \E menuFound \in BOOLEAN : InitGui(menuFound)
    \/ Unload
    \/ ProjectCleared
    \/ \E tree \in ProjectTrees : OpenProject(tree)
    \/ \E a \in SortActions : SgSort(a)
    \/ SgGroupByGeometry
    \/ SgGroupByFolder
    \/ SgRestore
    \/ SgRemoveOriginals
    \/ SgFinish
    \/ \E a \in SortActions : SlSort(a)
    \/ SlRestore
    \/ SlRemoveAllChildren
    \/ SlAddClones
    \/ SlFinish

Spec == Init /\ [][Next]_vars

\* ---------------------------------------------------- deploy_plugins.py

\* the plugins are not part of a run of the deployment script
QgisNotRun ==
    /\ plugin = ""
    /\ phase = "new"
    /\ root = <<>>
    /\ registry = {}
    /\ bridge = TRUE
    /\ snapshot = NoSnapshot
    /\ savedLayers = NoLayers
    /\ pc = "idle"
    /\ frame = NoFrame
    /\ msg = FALSE
    /\ hist = NoHist

\* ---------------------------------------------------------- load_env_file

\* longest .env file of the runs
MaxLines == 3

\* the lines a .env file is made of, as "for line in fh" yields them
EnvLinePool ==
    { <<65, 61, 49, 10>>,                   \* "A=1\n"
      <<65, 61, 50, 10>>,                   \* "A=2\n"
      <<65, 61, 10>>,                       \* "A=\n"
      <<32, 66, 32, 61, 32, 120, 32, 10>>,  \* " B = x \n"
      <<66, 61, 49, 61, 50, 10>>,           \* "B=1=2\n"
      <<35, 65, 61, 51, 10>>,               \* "#A=3\n"
      <<61, 53, 10>>,                       \* "=5\n"
      <<65, 66, 10>>,                       \* "AB\n"
      <<10>> }                              \* "\n"

RECURSIVE Files(_)
Files(n) ==
    IF n = 0 THEN {<<>>}
    ELSE LET shorter == Files(n - 1)
         IN shorter \cup {Append(f, l) : f \in shorter, l \in EnvLinePool}

\* the environment the script may be started in: A and B may be defined
ProcessEnviron == [k \in {<<65>>, <<66>>} |-> IF k = <<65>> THEN <<48>> ELSE <<>>]

Environs == { [k \in ks |-> ProcessEnviron[k]] : ks \in SUBSET DOMAIN ProcessEnviron }

\* stripped.partition("=")[0].strip() and [2].strip()
EnvKey(stripped) == Strip(SubSeq(stripped, 1, Find(stripped, <<61>>)))
EnvValue(stripped) == Strip(Slice(stripped, Find(stripped, <<61>>) + 1))

\* the two "continue" tests of the loop
IsAssignment(stripped) ==
    /\ stripped # <<>> /\ ~StartsWith(stripped, <<35>>)
    /\ Find(stripped, <<61>>) >= 0

\* os.environ[key] = value
SetItem(env, key, value) ==
    [k \in DOMAIN env \cup {key} |-> IF k = key THEN value ELSE env[k]]

\* a variant that overwrites what is already defined
SetAlways(key, env) == key # <<>>

\* key and key not in os.environ
KeyIsNew(key, env) == key # <<>> /\ key \notin DOMAIN env

\* the body of "for line in fh"
LoadEnvLine(env, line) ==
    LET stripped == Strip(line)
    IN IF IsAssignment(stripped) /\ KeyIsNew(EnvKey(stripped), env)
       THEN SetItem(env, EnvKey(stripped), EnvValue(stripped))
       ELSE env

RECURSIVE LoadEnvLines(_, _)
LoadEnvLines(env, lines) ==
    IF lines = <<>> THEN env
    ELSE LoadEnvLines(LoadEnvLine(env, Head(lines)), Tail(lines))

InitEnv ==
    /\ QgisNotRun
    /\ environ \in Environs
    /\ disk \in [isfile : BOOLEAN, lines : Files(MaxLines)]
    /\ stdin = <<>>
    /\ call = [fn |-> "load_env_file", returned |-> FALSE, read |-> 0]
    /\ atCall = <<>>

\* load_env_file(repo_root) where .env is not a file: returns at once
LoadEnvNoFile ==
    /\ ~call.returned /\ ~disk.isfile
    /\ call' = [call EXCEPT !.returned = TRUE]
    /\ atCall' = environ
    /\ UNCHANGED <<pluginVars, environ, disk, stdin>>

\* load_env_file(repo_root): the loop over the lines; open() or the read
\* of any line may raise OSError, which ends the loop after read lines
LoadEnvFile(read) ==
    /\ ~call.returned /\ disk.isfile
    /\ environ' = LoadEnvLines(environ, SubSeq(disk.lines, 1, read))
    /\ call' = [call EXCEPT !.returned = TRUE, !.read = read]
    /\ atCall' = environ
    /\ UNCHANGED <<pluginVars, disk, stdin>>

NextEnv ==
    \/ LoadEnvNoFile
    \/ \E read \in 0..Len(disk.lines) : LoadEnvFile(read)

SpecEnv == InitEnv /\ [][NextEnv]_vars

\* ------------------------------------------------------- create_plugin_zip

ZIP_EXCLUDE_DIRS ==
    { <<46, 103, 105, 116>>,                                   \* ".git"
      <<95, 95, 112, 121, 99, 97, 99, 104, 101, 95, 95>>,      \* "__pycache__"
      <<46, 105, 100, 101, 97>>,                               \* ".idea"
      <<46, 118, 115, 99, 111, 100, 101>>,                     \* ".vscode"
      <<95, 95, 77, 65, 67, 79, 83, 88>>,                      \* "__MACOSX"
      <<46, 109, 121, 112, 121, 95, 99, 97, 99, 104, 101>>,    \* ".mypy_cache"
      <<46, 112, 121, 116, 101, 115, 116, 95, 99, 97, 99, 104, 101>>,
                                                               \* ".pytest_cache"
      <<110, 111, 100, 101, 95, 109, 111, 100, 117, 108, 101, 115>> }
                                                               \* "node_modules"

ZIP_EXCLUDE_EXTENSIONS == { <<46, 112, 121, 99>>, <<46, 112, 121, 111>> }

LICENSE_FILENAMES ==
    { <<108, 105, 99, 101, 110, 115, 101>>,                        \* "license"
      <<108, 105, 99, 101, 110, 115, 101, 46, 116, 120, 116>>,     \* "license.txt"
      <<108, 105, 99, 101, 110, 99, 101>>,                         \* "licence"
      <<108, 105, 99, 101, 110, 99, 101, 46, 116, 120, 116>> }     \* "licence.txt"

REQUIRED_PLUGIN_FILES ==
    { <<95, 95, 105, 110, 105, 116, 95, 95, 46, 112, 121>>,        \* "__init__.py"
      <<109, 101, 116, 97, 100, 97, 116, 97, 46, 116, 120, 116>> } \* "metadata.txt"

LicenseName == <<76, 73, 67, 69, 78, 83, 69>>                      \* "LICENSE"

\* os.path.dirname(os.path.abspath(__file__)), and a tempfile.mkdtemp()
RepoRoot == <<47, 114>>                                            \* "/r"
TmpDir == <<47, 116, 109, 112, 47, 113, 103, 105, 115, 95, 112, 108, 117, 103,
            105, 110, 95, 48>>                             \* "/tmp/qgis_plugin_0"

\* most files of a plugin folder besides the required ones
MaxFiles == 4

\* the folders under plugins/ that hold a plugin
PluginFolders == { <<115, 103>>, <<115, 108>> }                    \* "sg", "sl"

\* files a plugin folder may hold besides the required ones, as the
\* components of their paths below the folder
PluginFilePool ==
    { << <<97, 46, 112, 121, 99>> >>,                              \* a.pyc
      << <<66, 46, 80, 89, 79>> >>,                                \* B.PYO
      << <<46, 112, 121, 99>> >>,                                  \* .pyc
      << <<76, 73, 67, 69, 78, 83, 69, 46, 116, 120, 116>> >>,     \* LICENSE.txt
      << <<95, 95, 112, 121, 99, 97, 99, 104, 101, 95, 95>>,
         <<97, 46, 112, 121>> >>,                                  \* __pycache__/a.py
      << <<46, 103, 105, 116>>, <<99>> >>,                         \* .git/c
      << <<46, 120>>, <<97, 46, 112, 121>> >>,                     \* .x/a.py
      << <<115>>, <<97, 46, 112, 121>> >>,                         \* s/a.py
      << <<115>>, <<110, 111, 100, 101, 95, 109, 111, 100, 117, 108, 101, 115>>,
         <<106>> >>,                                               \* s/node_modules/j
      << <<115>>, <<116>>, <<97, 46, 112, 121, 111>> >>,           \* s/t/a.pyo
      << <<115>>, <<76, 73, 67, 69, 78, 83, 69>> >>,               \* s/LICENSE
      << <<115>>, <<46, 121>>, <<122>> >> }                        \* s/.y/z

PluginTrees ==
    { {<<f>> : f \in REQUIRED_PLUGIN_FILES} \cup extra :
        extra \in {x \in SUBSET PluginFilePool : Cardinality(x) <= MaxFiles} }

\* what the repository root may hold under a name like a licence
RepoEntryPool ==
    { [name |-> <<76, 73, 67, 69, 78, 83, 69>>, isfile |-> TRUE],  \* LICENSE
      [name |-> <<76, 105, 99, 101, 110, 99, 101, 46, 84, 88, 84>>,
       isfile |-> TRUE],                                           \* Licence.TXT
      [name |-> <<108, 105, 99, 101, 110, 115, 101>>, isfile |-> FALSE] }
                                                                   \* license/

\* posixpath.splitext(p)[1] of a file name
Splitext(filename) ==
    LET dot == RFind(filename, 46)
    IN IF dot >= 0 /\ \E i \in 1..dot : filename[i] # 46
       THEN Slice(filename, dot) ELSE <<>>

\* [x for x in path.split("/") if x]
RECURSIVE NonEmpty(_)
NonEmpty(comps) ==
    IF comps = <<>> THEN <<>>
    ELSE (IF Head(comps) = <<>> THEN <<>> ELSE <<Head(comps)>>)
         \o NonEmpty(Tail(comps))

\* len(os.path.commonprefix([a, b])) of two lists
CommonPrefixLen(a, b) ==
    LET same == {i \in 0..Len(a) : i <= Len(b) /\ \A j \in 1..i : a[j] = b[j]}
    IN CHOOSE i \in same : \A k \in same : k <= i

\* posixpath.relpath(path, start) of absolute paths
Relpath(path, start) ==
    LET startList == NonEmpty(SplitSlash(Normpath(start)))
        pathList == NonEmpty(SplitSlash(Normpath(path)))
        i == CommonPrefixLen(startList, pathList)
        relList == [k \in 1..(Len(startList) - i) |-> <<46, 46>>]
                   \o SubSeq(pathList, i + 1, Len(pathList))
    IN IF relList = <<>> THEN <<46>> ELSE JoinSlash(relList)

\* the name ZipFile.write(filename, arcname) stores
RECURSIVE LStripSlash(_)
LStripSlash(s) ==
    IF s # <<>> /\ Head(s) = 47 THEN LStripSlash(Tail(s)) ELSE s

ArcName(arcname) == LStripSlash(Normpath(arcname))

\* a variant that prunes the listed directories only
KeptIfNotListed(d) == d \notin ZIP_EXCLUDE_DIRS

\* d not in ZIP_EXCLUDE_DIRS and not d.startswith(".")
KeptDir(d) == d \notin ZIP_EXCLUDE_DIRS /\ ~StartsWith(d, <<46>>)

\* os.walk: the files and the directories of the directory at rel
FilesIn(tree, rel) ==
    { p[Len(p)] : p \in {q \in tree : Len(q) = Len(rel) + 1
                                      /\ SubSeq(q, 1, Len(rel)) = rel} }

DirsIn(tree, rel) ==
    { p[Len(rel) + 1] : p \in {q \in tree : Len(q) > Len(rel) + 1
                                            /\ SubSeq(q, 1, Len(rel)) = rel} }

\* os.walk's root for the directory at rel: os.path.join(top, d) at each level
RECURSIVE WalkRoot(_, _)
WalkRoot(top, rel) ==
    IF rel = <<>> THEN top
    ELSE WalkRoot(PathJoin(top, Head(rel)), Tail(rel))

\* the (root, filename) pairs of "for root, dirs, files in os.walk" /
\* "for filename in files", with the pruning of dirs in place
RECURSIVE Walked(_, _, _)
Walked(tree, top, rel) ==
    { [root |-> WalkRoot(top, rel), filename |-> f] : f \in FilesIn(tree, rel) }
    \cup UNION { Walked(tree, top, Append(rel, d)) :
                    d \in {x \in DirsIn(tree, rel) : KeptDir(x)} }

\* the files the loop writes: those it does not "continue" over
Written(tree, top) ==
    { w \in Walked(tree, top, <<>>) :
        Lower(Splitext(w.filename)) \notin ZIP_EXCLUDE_EXTENSIONS }

\* zf.write(file_path, rel_path)
ZipEntry(w, pluginPath) ==
    [src |-> PathJoin(w.root, w.filename),
     name |-> ArcName(Relpath(PathJoin(w.root, w.filename), Dirname(pluginPath)))]

HasLicense(tree, pluginPath) ==
    \E w \in Written(tree, pluginPath) :
        w.root = pluginPath /\ Lower(w.filename) \in LICENSE_FILENAMES

\* os.path.isfile(default_license)
IsRepoFile(repo, path) ==
    \E e \in repo : e.isfile /\ PathJoin(RepoRoot, e.name) = path

\* the archive create_plugin_zip writes
ZipOf(d, pluginPath, pluginFolderName, defaultLicense) ==
    { ZipEntry(w, pluginPath) : w \in Written(d.tree, pluginPath) }
    \cup IF /\ ~HasLicense(d.tree, pluginPath)
            /\ defaultLicense # <<>>
            /\ IsRepoFile(d.repo, defaultLicense)
         THEN { [src |-> defaultLicense,
                 name |-> ArcName(PathJoin(pluginFolderName, LicenseName))] }
         ELSE {}

\* _find_license_in_dir(repo_root): os.listdir gives the entries in any
\* order, the first one that matches is returned; <<>> stands for None
FindLicenseInDir(repo) ==
    LET found == { PathJoin(RepoRoot, e.name) :
                     e \in {x \in repo : Lower(x.name) \in LICENSE_FILENAMES
                                         /\ x.isfile} }
    IN IF found = {} THEN {<<>>} ELSE found

\* discover_plugins: the (folder name, full path) pair of a plugin folder
PluginPair(entry) ==
    [name |-> entry,
     path |-> PathJoin(PathJoin(RepoRoot, <<112, 108, 117, 103, 105, 110, 115>>),
                       entry)]

NoArchive == [returned |-> FALSE, raised |-> FALSE, entries |-> {}, path |-> <<>>]

\* prepare_upload_flow / upload_flow about to package one plugin
InitZip ==
    /\ QgisNotRun
    /\ environ = <<>>
    /\ disk \in [plugin : PluginFolders, tree : PluginTrees,
                 repo : SUBSET RepoEntryPool]
    /\ stdin = <<>>
    /\ call = [fn |-> "create_plugin_zip", zip |-> NoArchive]
    /\ atCall = [plugin_path |-> <<>>, plugin_folder_name |-> <<>>,
                 default_license |-> <<>>]

\* create_plugin_zip(folder_path, folder_name, default_license) returns
CreatePluginZip(pair, defaultLicense) ==
    /\ ~call.zip.returned /\ ~call.zip.raised
    /\ call' = [call EXCEPT !.zip =
                  [returned |-> TRUE, raised |-> FALSE,
                   entries |-> ZipOf(disk, pair.path, pair.name, defaultLicense),
                   path |-> PathJoin(TmpDir, pair.name \o <<46, 122, 105, 112>>)]]
    /\ atCall' = [plugin_path |-> pair.path, plugin_folder_name |-> pair.name,
                  default_license |-> defaultLicense]
    /\ UNCHANGED <<pluginVars, environ, disk, stdin>>

\* mkdtemp, ZipFile or a write raises OSError: the caller gets no archive
CreatePluginZipRaises(pair, defaultLicense) ==
    /\ ~call.zip.returned /\ ~call.zip.raised
    /\ call' = [call EXCEPT !.zip.raised = TRUE]
    /\ atCall' = [plugin_path |-> pair.path, plugin_folder_name |-> pair.name,
                  default_license |-> defaultLicense]
    /\ UNCHANGED <<pluginVars, environ, disk, stdin>>

NextZip ==
    \/ \E lic \in FindLicenseInDir(disk.repo) :
          CreatePluginZip(PluginPair(disk.plugin), lic)
    \/ \E lic \in FindLicenseInDir(disk.repo) :
          CreatePluginZipRaises(PluginPair(disk.plugin), lic)

SpecZip == InitZip /\ [][NextZip]_vars

\* ----------------------------------------------------------- prompt_choice

\* longest list of options, and most answers the console has in store
MaxOptions == 3
MaxAnswers == 2

\* what input() may give: a typed line, EOFError or KeyboardInterrupt
Line(text) == [kind |-> "line", text |-> text]
EndOfInput == [kind |-> "eof", text |-> <<>>]
Interrupt == [kind |-> "interrupt", text |-> <<>>]

AnswerPool ==
    { Line(<<>>),                   \* ""
      Line(<<32>>),                 \* " "
      Line(<<113>>),                \* "q"
      Line(<<32, 81, 32>>),         \* " Q "
      Line(<<97>>),                 \* "a"
      Line(<<49>>),                 \* "1"
      Line(<<48>>),                 \* "0"
      Line(<<57>>),                 \* "9"
      Line(<<48, 50>>),             \* "02"
      Line(<<50, 44, 32, 49>>),     \* "2, 1"
      Line(<<49, 44, 44, 50>>),     \* "1,,2"
      Line(<<49, 44, 120>>),        \* "1,x"
      Line(<<45, 49>>),             \* "-1"
      Line(<<178>>),                \* U+00B2 SUPERSCRIPT TWO
      EndOfInput,
      Interrupt }

\* the consoles that have up to n answers of a pool in store
RECURSIVE Consoles(_, _)
Consoles(pool, n) ==
    IF n = 0 THEN {<<>>}
    ELSE LET shorter == Consoles(pool, n - 1)
         IN shorter \cup {Append(s, a) : s \in shorter, a \in pool}

\* input(): the next answer; a console with nothing left is at end of input
Input(console) == IF console = <<>> THEN EndOfInput ELSE Head(console)
Rest(console) == IF console = <<>> THEN <<>> ELSE Tail(console)

\* str.upper()
Upper(s) == [i \in 1..Len(s) |-> IF s[i] \in 97..122 THEN s[i] - 32 ELSE s[i]]

\* str.split(",")
RECURSIVE SplitComma(_)
SplitComma(s) ==
    LET i == Find(s, <<44>>)
    IN IF i < 0 THEN <<s>>
       ELSE <<SubSeq(s, 1, i)>> \o SplitComma(Slice(s, i + 1))

\* str.isdigit(): every character has the property Numeric_Type Digit or
\* Decimal, which the superscript digits U+00B2, U+00B3, U+00B9 have
IsDigitChar(c) == c \in 48..57 \cup {178, 179, 185}
IsDigit(s) == s # <<>> /\ \A i \in 1..Len(s) : IsDigitChar(s[i])

\* int(s) of a string that passed isdigit(): decimal digits give a number,
\* any other character makes int raise ValueError
IntAccepts(s) == \A i \in 1..Len(s) : s[i] \in 48..57

RECURSIVE IntValue(_, _)
IntValue(s, acc) ==
    IF s = <<>> THEN acc ELSE IntValue(Tail(s), 10 * acc + (Head(s) - 48))

\* not (num < 0 or num >= len(options))
InRange(num, n) == ~(num < 0 \/ num >= n)

\* the loop "for part in parts": valid, indices, and whether int raised
RECURSIVE Selection(_, _, _)
Selection(parts, n, indices) ==
    IF parts = <<>> THEN [valid |-> TRUE, indices |-> indices, raised |-> FALSE]
    ELSE LET part == Strip(Head(parts)) IN
         IF ~IsDigit(part)
         THEN [valid |-> FALSE, indices |-> indices, raised |-> FALSE]
         ELSE IF ~IntAccepts(part)
         THEN [valid |-> FALSE, indices |-> indices, raised |-> TRUE]
         ELSE IF ~InRange(IntValue(part, 0) - 1, n)
         THEN [valid |-> FALSE, indices |-> indices, raised |-> FALSE]
         ELSE Selection(Tail(parts), n, Append(indices, IntValue(part, 0) - 1))

Asking == [state |-> "asking", none |-> FALSE, indices |-> <<>>]
ReturnNone == [state |-> "returned", none |-> TRUE, indices |-> <<>>]
ReturnList(indices) == [state |-> "returned", none |-> FALSE, indices |-> indices]
ValueError == [state |-> "raised", none |-> FALSE, indices |-> <<>>]

\* one pass of "while True": what an answer leads to
Answered(answer, n, allowAll) ==
    LET raw == Strip(answer.text)
        sel == Selection(SplitComma(raw), n, <<>>)
    IN IF answer.kind # "line" THEN ReturnNone
       ELSE IF raw = <<>> THEN Asking
       ELSE IF Upper(raw) = <<81>> THEN ReturnNone
       ELSE IF allowAll /\ Upper(raw) = <<65>>
            THEN ReturnList([i \in 1..n |-> i - 1])
       ELSE IF sel.raised THEN ValueError
       ELSE IF sel.valid /\ sel.indices # <<>> THEN ReturnList(sel.indices)
       ELSE Asking

\* the calls of main and of the three flows: the actions and the profiles
\* without "All" (two options or more), the plugins with "All" (one or more)
InitPrompt ==
    /\ QgisNotRun
    /\ environ = <<>>
    /\ disk = <<>>
    /\ stdin \in Consoles(AnswerPool, MaxAnswers)
    /\ \E n \in 1..MaxOptions : \E allowAll \in BOOLEAN :
          /\ allowAll \/ n >= 2
          /\ call = [fn |-> "prompt_choice", options |-> n,
                     allow_all |-> allowAll, out |-> Asking, asked |-> 0]
    /\ atCall = EndOfInput

\* prompt_choice: input() and what follows it in the loop
PromptChoice ==
    /\ call.out.state = "asking"
    /\ call' = [call EXCEPT
                  !.out = Answered(Input(stdin), call.options, call.allow_all),
                  !.asked = call.asked + 1]
    /\ stdin' = Rest(stdin)
    /\ atCall' = Input(stdin)
    /\ UNCHANGED <<pluginVars, environ, disk>>

NextPrompt == PromptChoice

SpecPrompt == InitPrompt /\ [][NextPrompt]_vars

\* ------------------------------------------------------------- copy_plugin

\* the files a plugin folder is made of, by number
PluginFiles == 1..2

\* a folder: whether it exists, and the files in it
Folder(files) == [exists |-> TRUE, files |-> files]
NoFolder == [exists |-> FALSE, files |-> {}]

\* what the user may answer to "Overwrite? (y/n): " and to the retry prompts
OverwritePool ==
    { Line(<<121>>),                    \* "y"
      Line(<<32, 89, 101, 115, 32>>),   \* " Yes "
      Line(<<110>>),                    \* "n"
      Line(<<78, 79>>),                 \* "NO"
      Line(<<>>),                       \* ""
      Line(<<111, 107>>),               \* "ok"
      EndOfInput,
      Interrupt }

\* a variant that takes everything but a refusal for a yes
IsNotNo(answer) == answer \notin {<<110>>, <<110, 111>>}

\* answer in ("y", "yes")
IsYes(answer) == answer \in {<<121>>, <<121, 101, 115>>}

\* answer in ("n", "no")
IsNo(answer) == answer \in {<<110>>, <<110, 111>>}

\* the plugin folder of the repository exists; the one of the profile may
InitCopy ==
    /\ QgisNotRun
    /\ environ = <<>>
    /\ disk \in [src : {Folder(f) : f \in SUBSET PluginFiles \ {{}}},
                 dest : {NoFolder} \cup {Folder(f) : f \in SUBSET PluginFiles}]
    /\ stdin \in Consoles(OverwritePool, MaxAnswers)
    /\ call = [fn |-> "copy_plugin", at |-> "start", result |-> FALSE,
               copied |-> FALSE]
    /\ atCall = [dest |-> NoFolder, answers |-> <<>>]

CopyReturns(result) == [call EXCEPT !.at = "returned", !.result = result]

\* copy_plugin(src_path, dest_path): if os.path.exists(dest_path)
CopyPlugin ==
    /\ call.at = "start"
    /\ call' = [call EXCEPT !.at = IF disk.dest.exists THEN "overwrite"
                                   ELSE "copytree"]
    /\ atCall' = [dest |-> disk.dest, answers |-> <<>>]
    /\ UNCHANGED <<pluginVars, environ, disk, stdin>>

\* one pass of the loop around input("  Overwrite? (y/n): ")
Overwrite ==
    /\ call.at = "overwrite"
    /\ LET answer == Lower(Strip(Input(stdin).text))
       IN call' = IF Input(stdin).kind # "line" THEN CopyReturns(FALSE)
                  ELSE IF IsYes(answer) THEN [call EXCEPT !.at = "rmtree"]
                  ELSE IF IsNo(answer) THEN CopyReturns(FALSE)
                  ELSE call
    /\ stdin' = Rest(stdin)
    /\ atCall' = [atCall EXCEPT !.answers = Append(@, Input(stdin))]
    /\ UNCHANGED <<pluginVars, environ, disk>>

\* shutil.rmtree(dest_path) removes the folder
Rmtree ==
    /\ call.at = "rmtree"
    /\ disk' = [disk EXCEPT !.dest = NoFolder]
    /\ call' = [call EXCEPT !.at = "copytree"]
    /\ UNCHANGED <<pluginVars, environ, stdin, atCall>>

\* shutil.rmtree raises PermissionError with the files left still there;
\* the retry prompt follows: a line retries, the end of input or an
\* interrupt gives up
RmtreeLocked(left) ==
    /\ call.at = "rmtree" /\ left \subseteq disk.dest.files
    /\ disk' = [disk EXCEPT !.dest = Folder(left)]
    /\ call' = IF Input(stdin).kind = "line" THEN call ELSE CopyReturns(FALSE)
    /\ stdin' = Rest(stdin)
    /\ UNCHANGED <<pluginVars, environ, atCall>>

\* shutil.rmtree raises another OSError, which copy_plugin does not catch
RmtreeRaises(left) ==
    /\ call.at = "rmtree" /\ left \subseteq disk.dest.files
    /\ disk' = [disk EXCEPT !.dest = Folder(left)]
    /\ call' = [call EXCEPT !.at = "raised"]
    /\ UNCHANGED <<pluginVars, environ, stdin, atCall>>

\* shutil.copytree(src_path, dest_path) completes: it needs the destination
\* not to exist
Copytree ==
    /\ call.at = "copytree" /\ ~disk.dest.exists
    /\ disk' = [disk EXCEPT !.dest = disk.src]
    /\ call' = [CopyReturns(TRUE) EXCEPT !.copied = TRUE]
    /\ UNCHANGED <<pluginVars, environ, stdin, atCall>>

\* what a failed copytree leaves: nothing, or a folder with some of the files
Partial == {NoFolder} \cup {Folder(f) : f \in (SUBSET disk.src.files) \ {disk.src.files}}

\* shutil.copytree raises PermissionError; the retry prompt follows
CopytreeLocked(done) ==
    /\ call.at = "copytree" /\ ~disk.dest.exists /\ done \in Partial
    /\ disk' = [disk EXCEPT !.dest = done]
    /\ call' = IF Input(stdin).kind = "line" THEN call ELSE CopyReturns(FALSE)
    /\ stdin' = Rest(stdin)
    /\ UNCHANGED <<pluginVars, environ, atCall>>

\* shutil.copytree raises another OSError: FileExistsError when the
\* destination exists, or an error on the way
CopytreeFails(done) ==
    /\ call.at = "copytree"
    /\ IF disk.dest.exists THEN done = disk.dest ELSE done \in Partial
    /\ disk' = [disk EXCEPT !.dest = done]
    /\ call' = CopyReturns(FALSE)
    /\ UNCHANGED <<pluginVars, environ, stdin, atCall>>

Leftovers == {NoFolder} \cup {Folder(f) : f \in SUBSET PluginFiles}

NextCopy ==
    \/ CopyPlugin
    \/ Overwrite
    \/ Rmtree
    \/ \E left \in SUBSET PluginFiles : RmtreeLocked(left)
    \/ \E left \in SUBSET PluginFiles : RmtreeRaises(left)
    \/ Copytree
    \/ \E done \in Leftovers : CopytreeLocked(done)
    \/ \E done \in Leftovers : CopytreeFails(done)

SpecCopy == InitCopy /\ [][NextCopy]_vars

\* ------------------------------------------- exceptions in the handlers

\* most handlers of a session that an exception ends
MaxRaises == 1

MayRaise == hist.raises < MaxRaises

\* the handler is left by the exception: Qt reports it and goes on
Raised(inTry) == [hist EXCEPT !.op = NoOp, !.pre = <<>>, !.dropped = FALSE,
                              !.raises = @ + 1, !.unwound = inTry]

\* a variant without the finally clause: the bridge stays as it is
NotUnwound(enabled) == enabled

\* finally: bridge.setEnabled(True)
Unwound(enabled) == TRUE

\* _rebuild_tree phase 1: root.addChildNode raises after added children;
\* the bridge has not been touched yet
SgAddRaises(newChildren) ==
    /\ MayRaise
    /\ \E added \in 0..(Len(newChildren) - 1) :
          root' = root \o SubSeq(newChildren, 1, added)
    /\ hist' = Raised(FALSE)
    /\ msg' = FALSE
    /\ UNCHANGED <<bridge, pc, frame>>

\* a sort of the Sort and Group plugin that phase 1 ends
SgSortRaises(a) ==
    /\ SgReady /\ root # <<>>
    /\ snapshot' = SgSaveOriginalOrder(snapshot, root, registry)
    /\ savedLayers' = SgSaveLayers(snapshot, savedLayers, registry)
    /\ SgAddRaises(SgNewNodes(root, a.key, a.reverse, registry))
    /\ UNCHANGED <<deployVars, plugin, phase, registry>>

\* group_by_geometry and group_by_folder that phase 1 ends
SgGroupRaises(byFolder) ==
    /\ SgReady /\ FlattenLayerNodes(root) # <<>>
    /\ snapshot' = SgSaveOriginalOrder(snapshot, root, registry)
    /\ savedLayers' = SgSaveLayers(snapshot, savedLayers, registry)
    /\ SgAddRaises(IF byFolder
                   THEN FolderGroups(FlattenLayerNodes(root), registry)
                   ELSE GeometryGroups(FlattenLayerNodes(root), registry))
    /\ UNCHANGED <<deployVars, plugin, phase, registry>>

\* restore_original_order that phase 1 ends: the snapshot is kept
SgRestoreRaises ==
    /\ SgReady /\ ~NothingToRestore(snapshot)
    /\ registry' = registry \cup savedLayers.ids
    /\ SgAddRaises(CopyAll(snapshot.nodes, registry \cup savedLayers.ids))
    /\ UNCHANGED <<deployVars, plugin, phase, snapshot, savedLayers>>

\* _rebuild_tree phase 2: root.removeChildNode raises after removed
\* removals, or project.addMapLayer raises in the safety net once all the
\* originals are removed; the finally clause runs and the handler is left
SgRemoveRaises(removed) ==
    /\ plugin = "SG" /\ pc = "sg_remove" /\ MayRaise
    /\ removed \in 0..frame.orig
    /\ root' = SubSeq(root, removed + 1, Len(root))
    /\ registry' = AfterRemoval(registry, bridge, SubSeq(root, 1, removed),
                                SubSeq(root, removed + 1, Len(root)))
    /\ bridge' = Unwound(bridge)
    /\ hist' = Raised(TRUE)
    /\ frame' = NoFrame
    /\ pc' = "idle"
    /\ UNCHANGED <<deployVars, plugin, phase, snapshot, savedLayers, msg>>

\* root.removeAllChildren() of the Sort Layers plugin raises: nothing is
\* removed, the finally clause runs and the handler is left
SlRemoveRaises ==
    /\ plugin = "SL" /\ pc = "sl_remove" /\ MayRaise
    /\ bridge' = Unwound(bridge)
    /\ hist' = Raised(TRUE)
    /\ frame' = NoFrame
    /\ pc' = "idle"
    /\ UNCHANGED <<deployVars, plugin, phase, root, registry, snapshot,
                   savedLayers, msg>>

\* root.addChildNode(clone) of the Sort Layers plugin raises after added
\* clones; the finally clause runs and the handler is left (a restore does
\* not get to clear the saved order)
SlAddRaises(added) ==
    /\ plugin = "SL" /\ pc = "sl_add" /\ MayRaise
    /\ added \in 0..(Len(frame.new) - 1)
    /\ root' = root \o SubSeq(frame.new, 1, added)
    /\ bridge' = Unwound(bridge)
    /\ hist' = Raised(TRUE)
    /\ frame' = NoFrame
    /\ pc' = "idle"
    /\ UNCHANGED <<deployVars, plugin, phase, registry, snapshot, savedLayers,
                   msg>>

\* the projects opened in these sessions have up to MaxTopExc top-level nodes
MaxTopExc == 2

SmallTrees == {tree \in ProjectTrees : Len(tree) <= MaxTopExc}

\* the sorts of these sessions: by name, and by file size (descending)
SortActionsExc ==
    {a \in SortActions : a.key \in {"alphabetical", "file_size"}}

NextExc ==
    \/ \E menuFound \in BOOLEAN : InitGui(menuFound)
    \/ Unload
    \/ ProjectCleared
    \/ \E tree \in SmallTrees : OpenProject(tree)
    \/ \E a \in SortActionsExc : SgSort(a)
    \/ SgGroupByGeometry
    \/ SgGroupByFolder
    \/ SgRestore
    \/ SgRemoveOriginals
    \/ SgFinish
    \/ \E a \in SortActionsExc : SlSort(a)
    \/ SlRestore
    \/ SlRemoveAllChildren
    \/ SlAddClones
    \/ SlFinish
    \/ \E a \in SortActionsExc : SgSortRaises(a)
    \/ \E byFolder \in BOOLEAN : SgGroupRaises(byFolder)
    \/ SgRestoreRaises
    \/ \E removed \in 0..(2 * MaxTop) : SgRemoveRaises(removed)
    \/ SlRemoveRaises
    \/ \E added \in 0..(2 * MaxTop) : SlAddRaises(added)

\* the plugins in a session in which the host's calls may raise
SpecExc == Init /\ [][NextExc]_vars

\* ------------------------------------------------------------- properties

\* what "structurally equal" compares: nesting, child order, group names,
\* layer identities, visibility and expanded flags
RECURSIVE Structure(_)
Structure(n) ==
    [kind |-> n.kind, id |-> n.id, name |-> n.name, vis |-> n.vis, exp |-> n.exp,
     kids |-> [i \in 1..Len(n.kids) |-> Structure(n.kids[i])]]

Structures(nodes) == [i \in 1..Len(nodes) |-> Structure(nodes[i])]

\* the last step of a handler of the Sort and Group plugin that rebuilt the
\* tree, and of one of the Sort Layers plugin
SgReturns(kind) == pc = "sg_finish" /\ hist.op.kind = kind /\ pc' = "idle"
SlReturns(kind) == pc = "sl_finish" /\ hist.op.kind = kind /\ pc' = "idle"

\* keys are in ascending (with reverse: descending) order
InKeyOrder(keys, reverse) ==
    \A p, q \in 1..Len(keys) :
        p < q => ~(IF reverse THEN LexLess(keys[p], keys[q])
                   ELSE LexLess(keys[q], keys[p]))

SameKey(a, b) == ~LexLess(a, b) /\ ~LexLess(b, a)

\* C1: in the Sort and Group Layers plugin, restore_original_order after a
\* sequence of sorts and groups on a non-empty tree returns with the root's
\* children structurally equal to the tree before the first operation of
\* the sequence.
C1_RestoreGivesOriginalTree ==
    [][(plugin = "SG" /\ hist.seq /\ (SgReturns("restore") \/ (pc' = "idle" /\ SgRestore)))
       => Structures(root') = Structures(hist.base.nodes)]_vars

\* a restore of the Sort and Group plugin has rebuilt the tree of a project
\* with a nested group from its snapshot, after a sequence whose last tree
\* had another shape; the rebuilt nodes are copies, not the original nodes
C1_Witness ==
    /\ plugin = "SG" /\ pc = "sg_finish" /\ frame.restore /\ hist.seq
    /\ Structures(root) = Structures(hist.base.nodes)
    /\ root # hist.base.nodes
    /\ Structures(hist.pre) # Structures(hist.base.nodes)
    /\ \E i \in 1..Len(root) : \E j \in 1..Len(root[i].kids) : IsGroupNode(root[i].kids[j])

\* C2: in the Sort Layers plugin, restore_original_order after a sequence of
\* sorts on a non-empty tree returns with the root's children equal, in
\* order and content, to the children before the first sort of the sequence.
C2_RestoreGivesOriginalChildren ==
    [][(plugin = "SL" /\ hist.seq /\ (SlReturns("restore") \/ (pc' = "idle" /\ SlRestore)))
       => root' = hist.base.nodes]_vars

\* a restore of the Sort Layers plugin has put back the children of a tree
\* with a group, after a sort that had changed their order
C2_Witness ==
    /\ plugin = "SL" /\ pc = "sl_finish" /\ frame.restore /\ hist.seq
    /\ root = hist.base.nodes
    /\ hist.pre # hist.base.nodes
    /\ \E i \in 1..Len(root) : IsGroupNode(root[i]) /\ root[i].kids # <<>>

\* C3: no step of a sort, group or restore of either plugin takes a layer
\* out of the registry: outside the clearing of the project, the set of
\* registered layers never shrinks.
C3_RegistryNeverShrinks ==
    [][ProjectCleared \/ registry \subseteq registry']_vars

\* the Sort Layers plugin has removed all children of the root, and every
\* layer that had a node in the tree is still registered
C3_Witness ==
    /\ plugin = "SL" /\ pc = "sl_add" /\ root = <<>>
    /\ IdsIn(hist.pre) \cap LayerIds # {}
    /\ IdsIn(hist.pre) \cap LayerIds \subseteq registry

\* C4: a step of a sort, group or restore that removes nodes from the root
\* is taken with the bridge disabled, and leaves it disabled.
C4_RemovalOnlyWhileBridgeDisabled ==
    [][(pc # "idle" /\ Len(root') < Len(root)) => (~bridge /\ ~bridge')]_vars

\* _rebuild_tree has removed the original children, the new ones are left,
\* and the bridge is still disabled
C4_Witness ==
    /\ plugin = "SG" /\ pc = "sg_finish" /\ ~bridge
    /\ frame.orig > 0 /\ root = frame.new /\ root # <<>>

\* the new list is a stable sort of copies of the old one: a one-to-one
\* assignment f of old positions to new positions, in key order, that keeps
\* the order of the old positions where the keys are equal
IsStableSortOf(pre, post, k, reverse, reg) ==
    /\ Len(post) = Len(pre)
    /\ \E f \in [1..Len(pre) -> 1..Len(pre)] :
        /\ \A p, q \in 1..Len(pre) : p # q => f[p] # f[q]
        /\ \A p \in 1..Len(pre) : Structure(post[p]) = Structure(pre[f[p]])
        /\ InKeyOrder([p \in 1..Len(pre) |-> KeyFunc("SG", k, pre[f[p]], reg)], reverse)
        /\ \A p, q \in 1..Len(pre) :
              (p < q /\ SameKey(KeyFunc("SG", k, pre[f[p]], reg),
                                KeyFunc("SG", k, pre[f[q]], reg))) => f[p] < f[q]

NoGroupIn(nodes) == \A i \in 1..Len(nodes) : ~IsGroupNode(nodes[i])

\* C5: when the root has no group among its children, a sort of the Sort and
\* Group Layers plugin returns with the root's children being copies of
\* exactly the previous children, in ascending (with reverse: descending)
\* key order, children of equal key in their previous relative order.
C5_SortWithoutGroupsIsStable ==
    [][(SgReturns("sort") /\ NoGroupIn(hist.pre))
       => IsStableSortOf(hist.pre, root', hist.op.key, hist.op.reverse, registry)]_vars

\* a descending sort of a root without groups has rebuilt the tree: two
\* children have the same key and the order of the children has changed
C5_Witness ==
    /\ plugin = "SG" /\ pc = "sg_finish" /\ hist.op.kind = "sort" /\ hist.op.reverse
    /\ NoGroupIn(hist.pre) /\ Len(hist.pre) >= 3
    /\ \E i, j \in 1..Len(hist.pre) :
          i # j /\ SameKey(KeyFunc("SG", hist.op.key, hist.pre[i], registry),
                           KeyFunc("SG", hist.op.key, hist.pre[j], registry))
    /\ Structures(root) # Structures(hist.pre)

\* the groups among the nodes, at any depth
RECURSIVE AllGroups(_)
AllGroups(nodes) ==
    UNION { IF IsGroupNode(nodes[i])
            THEN {nodes[i]} \cup AllGroups(nodes[i].kids) ELSE {} :
            i \in 1..Len(nodes) }

\* what tells a child from the other children of its group
Identity(n) == [kind |-> n.kind, id |-> n.id, name |-> n.name]

Members(g) == {Identity(g.kids[i]) : i \in 1..Len(g.kids)}

\* the children of every group, nested ones included, are in key order
SortedInEveryGroup(post, k, reverse, reg) ==
    \A g \in AllGroups(post) :
        InKeyOrder([i \in 1..Len(g.kids) |-> KeyFunc("SG", k, g.kids[i], reg)], reverse)

\* every group is still there and holds the nodes it held
SameGroupMembers(pre, post) ==
    \A g \in AllGroups(pre) :
        \E h \in AllGroups(post) :
            h.name = g.name /\ Len(h.kids) = Len(g.kids) /\ Members(h) = Members(g)

\* C6, as stated: after a sort of a tree with groups, the children of each
\* group, groups nested in other groups included, are in key order for the
\* chosen key and direction, and each group holds the nodes it held before.
C6_SortedWithinEveryGroup ==
    [][(SgReturns("sort") /\ ~NoGroupIn(hist.pre))
       => /\ SortedInEveryGroup(root', hist.op.key, hist.op.reverse, registry)
          /\ SameGroupMembers(hist.pre, root')]_vars

\* the names of the geometry groups in the order the claim gives
GeometryGroupOrder ==
    <<PointLayers, LineLayers, PolygonLayers, NoGeometry, UnknownGeometry,
      RasterLayers, OtherLayers>>

PlaceOf(name) == CHOOSE r \in 1..Len(GeometryGroupOrder) : GeometryGroupOrder[r] = name

\* each of the nodes is, as a copy, exactly one child of one of the groups
EachOnceIn(all, post) ==
    /\ Len(FlattenLayerNodes(post)) = Len(all)
    /\ \A m \in 1..Len(all) :
          Cardinality({ij \in (1..Len(post)) \X (1..Len(all)) :
                          /\ ij[2] <= Len(post[ij[1]].kids)
                          /\ Structure(post[ij[1]].kids[ij[2]]) = Structure(all[m])}) = 1

\* the root's children are geometry groups, none empty, in the order of the
\* categories, each holding layer nodes of its own category, and every layer
\* node of the old tree is in one of them
GroupedByGeometry(pre, post, reg) ==
    /\ \A i \in 1..Len(post) :
          /\ IsGroupNode(post[i]) /\ post[i].kids # <<>>
          /\ \E r \in 1..Len(GeometryGroupOrder) : GeometryGroupOrder[r] = post[i].name
          /\ \A j \in 1..Len(post[i].kids) :
                /\ IsLayerNode(post[i].kids[j])
                /\ GeometryCategory(post[i].kids[j], reg).name = post[i].name
    /\ \A i, j \in 1..Len(post) : i < j => PlaceOf(post[i].name) < PlaceOf(post[j].name)
    /\ EachOnceIn(FlattenLayerNodes(pre), post)

\* C7, for a tree that holds a layer node: group_by_geometry returns with
\* the root's children being only groups, one per non-empty category and
\* none empty, in the order Point Layers, Line Layers, Polygon Layers, No
\* Geometry, Unknown Geometry, Raster Layers, Other Layers, every layer node
\* of the old tree exactly once in the group of its category.  On a tree
\* without a layer node it leaves the tree as it is.
C7_GroupByGeometry ==
    [][/\ SgReturns("group_geometry")
          => (FlattenLayerNodes(hist.pre) # <<>>
              /\ GroupedByGeometry(hist.pre, root', registry))
       /\ (pc' = "idle" /\ SgGroupByGeometry)
          => (FlattenLayerNodes(root) = <<>> /\ root' = root)]_vars

\* group_by_geometry has rebuilt a tree that had a group with a nested
\* group into three or more geometry groups
C7_Witness ==
    /\ plugin = "SG" /\ pc = "sg_finish" /\ hist.op.kind = "group_geometry"
    /\ Len(root) >= 3
    /\ \E i \in 1..Len(hist.pre) : \E j \in 1..Len(hist.pre[i].kids) :
          IsGroupNode(hist.pre[i].kids[j])
    /\ GroupedByGeometry(hist.pre, root, registry)

\* C7, as stated: whenever group_by_geometry returns, the root's children
\* are only groups, one per non-empty category and none empty, in the order
\* of the categories, with every layer node of the old tree in its group.
C7_AsStated ==
    [][/\ SgReturns("group_geometry") => GroupedByGeometry(hist.pre, root', registry)
       /\ (pc' = "idle" /\ SgGroupByGeometry) => GroupedByGeometry(root, root', registry)]_vars

\* the directory the node's file lies in, and its lower-cased file name
FolderOf(n) == Dirname(GetFilePath(n.id))
FilenameOf(n) == Lower(Basename(GetFilePath(n.id)))
Resolved(n, reg) ==
    ~LayerIsNone(n, reg) /\ GetFilePath(n.id) # <<>> /\ FolderOf(n) # <<>>

\* the first nf children are the folder groups: one per directory, holding
\* the layers of the directory by lower-cased file name, in the order of
\* their lower-cased names; the layers without a folder are in one last
\* group named Other Sources; every layer node is there once
GroupedByFolder(pre, post, reg) ==
    LET all == FlattenLayerNodes(pre)
        nf == IF \E m \in 1..Len(all) : ~Resolved(all[m], reg)
              THEN Len(post) - 1 ELSE Len(post)
    IN /\ nf >= 0
       /\ \A i \in 1..Len(post) :
             /\ IsGroupNode(post[i]) /\ post[i].kids # <<>>
             /\ \A j \in 1..Len(post[i].kids) : IsLayerNode(post[i].kids[j])
       /\ \A i \in 1..nf :
             /\ \A j \in 1..Len(post[i].kids) :
                   /\ Resolved(post[i].kids[j], reg)
                   /\ FolderOf(post[i].kids[j]) = FolderOf(post[i].kids[1])
             /\ InKeyOrder([j \in 1..Len(post[i].kids) |-> FilenameOf(post[i].kids[j])],
                           FALSE)
       /\ \A i, j \in 1..nf :
             i < j => /\ FolderOf(post[i].kids[1]) # FolderOf(post[j].kids[1])
                      /\ ~LexLess(Lower(post[j].name), Lower(post[i].name))
       /\ nf < Len(post) =>
             /\ post[Len(post)].name = OtherSources
             /\ \A j \in 1..Len(post[Len(post)].kids) :
                   ~Resolved(post[Len(post)].kids[j], reg)
       /\ EachOnceIn(all, post)

\* C8: group_by_folder returns with one group per source directory, each
\* holding exactly the layers of that directory sorted by lower-cased file
\* name, the groups in the order of their lower-cased display names, the
\* layers that resolve to no folder in one group named Other Sources that
\* comes last, and every layer node of the flattened tree exactly once.
\* When the tree holds no layer node it creates nothing.
C8_GroupByFolder ==
    [][/\ SgReturns("group_folder") => GroupedByFolder(hist.pre, root', registry)
       /\ (pc' = "idle" /\ SgGroupByFolder)
          => (FlattenLayerNodes(root) = <<>> /\ root' = root)]_vars

\* group_by_folder has rebuilt the tree into two or more folder groups and
\* Other Sources; a folder group holds two layers, which were in the other
\* order before
C8_Witness ==
    /\ plugin = "SG" /\ pc = "sg_finish" /\ hist.op.kind = "group_folder"
    /\ Len(root) >= 3
    /\ root[Len(root)].name = OtherSources
    /\ GroupedByFolder(hist.pre, root, registry)
    /\ \E i \in 1..Len(root) :
          /\ Len(root[i].kids) = 2
          /\ LexLess(FilenameOf(root[i].kids[1]), FilenameOf(root[i].kids[2]))
          /\ \E a, b \in 1..Len(FlattenLayerNodes(hist.pre)) :
                /\ a < b
                /\ Structure(FlattenLayerNodes(hist.pre)[a]) = Structure(root[i].kids[2])
                /\ Structure(FlattenLayerNodes(hist.pre)[b]) = Structure(root[i].kids[1])

\* C9: restore_original_order called when no snapshot is saved only shows
\* the message: the tree, the registered layers, the bridge state and the
\* absent snapshot stay as they are.
C9_RestoreWithoutSnapshot ==
    [][(~snapshot.saved /\ (SgRestore \/ SlRestore))
       => /\ msg' /\ pc' = "idle"
          /\ UNCHANGED <<root, registry, bridge, snapshot, savedLayers>>]_vars

\* restore_original_order has shown its message on a non-empty tree, the
\* bridge is enabled and there is no snapshot
C9_Witness ==
    /\ msg /\ pc = "idle" /\ phase = "gui" /\ ~snapshot.saved /\ bridge
    /\ root # <<>> /\ registry # {}

\* the snapshot, when there is one, is that of the tree the current sequence
\* of sorts and groups started from (in the project that is open now)
SnapshotIsOfBase ==
    snapshot.saved =>
        /\ hist.base.saved
        /\ Structures(snapshot.nodes) = Structures(hist.base.nodes)

\* C10: once initGui has run, the clearing of the project discards the
\* snapshot; from then on a snapshot is always one of the tree the sorts
\* and groups of the new project started from, so that a restore never
\* applies the tree of the previous project and the next sort or group
\* snapshots the new tree.
C10_ClearedDiscardsSnapshot ==
    [][/\ (ProjectCleared /\ phase = "gui")
          => (~snapshot'.saved /\ ~savedLayers'.saved)
       /\ SnapshotIsOfBase']_vars

\* the clearing of a project discarded a snapshot, another project was
\* opened, and the first sort there has snapshotted the new tree
C10_Witness ==
    /\ hist.dropped /\ pc \in {"sg_finish", "sl_finish"} /\ hist.op.kind = "sort"
    /\ snapshot.saved /\ hist.pre # <<>>
    /\ Structures(snapshot.nodes) = Structures(hist.pre)

\* the assignments of a .env file: the lines the loop does not skip
Assigns(lines, i, key) ==
    /\ IsAssignment(Strip(lines[i]))
    /\ EnvKey(Strip(lines[i])) = key

FirstAssignment(lines, i, key) ==
    /\ Assigns(lines, i, key)
    /\ \A j \in 1..(i - 1) : ~Assigns(lines, j, key)

LoadEnvReturned == call.fn = "load_env_file" /\ call.returned

\* C11: when load_env_file has returned, every variable that was defined
\* before the call has the value it had, and every variable it defined has
\* the value of the first line of .env that assigns it; if the whole file
\* was read, every key the file assigns is defined.
C11_EnvFirstOccurrenceOnlyIfUnset ==
    LoadEnvReturned =>
        /\ \A k \in DOMAIN atCall :
              k \in DOMAIN environ /\ environ[k] = atCall[k]
        /\ \A k \in DOMAIN environ \ DOMAIN atCall :
              \E i \in 1..call.read :
                 /\ FirstAssignment(disk.lines, i, k)
                 /\ environ[k] = EnvValue(Strip(disk.lines[i]))
        /\ (disk.isfile /\ call.read = Len(disk.lines)) =>
              \A i \in 1..Len(disk.lines) :
                 (IsAssignment(Strip(disk.lines[i]))
                    /\ EnvKey(Strip(disk.lines[i])) # <<>>)
                 => EnvKey(Strip(disk.lines[i])) \in DOMAIN environ

\* the whole file was read; it assigns a variable that was defined before,
\* with another value, and assigns a new variable twice with two values
C11_Witness ==
    /\ LoadEnvReturned /\ disk.isfile /\ call.read = Len(disk.lines)
    /\ \E i \in 1..Len(disk.lines) : \E k \in DOMAIN atCall :
          /\ Assigns(disk.lines, i, k)
          /\ EnvValue(Strip(disk.lines[i])) # atCall[k]
    /\ \E i, j \in 1..Len(disk.lines) : \E k \in DOMAIN environ \ DOMAIN atCall :
          /\ i < j /\ Assigns(disk.lines, i, k) /\ Assigns(disk.lines, j, k)
          /\ EnvValue(Strip(disk.lines[i])) # EnvValue(Strip(disk.lines[j]))

ZipBuilt == call.fn = "create_plugin_zip" /\ call.zip.returned

\* the directories an archived file was found in, below the plugin folder
SourceDirs(e) ==
    LET below == SplitSlash(Slice(e.src, Len(atCall.plugin_path) + 1))
    IN IF StartsWith(e.src, atCall.plugin_path \o <<47>>)
       THEN {below[i] : i \in 1..(Len(below) - 1)} ELSE {}

\* C12: in the archive create_plugin_zip returns, every entry, the injected
\* LICENSE included, has a name under the directory plugin_folder_name; no
\* entry was found in a directory of ZIP_EXCLUDE_DIRS or in one whose name
\* starts with a dot, and no entry is a file with the extension .pyc or .pyo.
C12_ZipSingleTopDirNoExcluded ==
    ZipBuilt =>
        \A e \in call.zip.entries :
            /\ StartsWith(e.name, atCall.plugin_folder_name \o <<47>>)
            /\ Len(e.name) > Len(atCall.plugin_folder_name) + 1
            /\ \A d \in SourceDirs(e) :
                  d \notin ZIP_EXCLUDE_DIRS /\ Head(d) # 46
            /\ Lower(Splitext(Basename(e.src))) \notin ZIP_EXCLUDE_EXTENSIONS

\* an archive with a file of a subdirectory and the injected LICENSE, built
\* from a folder that holds a listed directory, a hidden directory and a
\* compiled file
C12_Witness ==
    /\ ZipBuilt
    /\ \E e \in call.zip.entries : SourceDirs(e) # {}
    /\ \E e \in call.zip.entries : e.src = atCall.default_license /\ e.src # <<>>
    /\ \E p \in disk.tree : Len(p) > 1 /\ p[1] \in ZIP_EXCLUDE_DIRS
    /\ \E p \in disk.tree : Len(p) > 1 /\ Head(p[1]) = 46
                            /\ p[1] \notin ZIP_EXCLUDE_DIRS
    /\ \E p \in disk.tree :
          Lower(Splitext(p[Len(p)])) \in ZIP_EXCLUDE_EXTENSIONS

\* the answer just read, as the user meant it
Answer == Strip(atCall.text)
Quits == atCall.kind # "line" \/ Upper(Answer) = <<81>>
AsksForAll == atCall.kind = "line" /\ Upper(Answer) = <<65>>

\* comma-separated decimal numbers between 1 and the number of options
IsNumber(part) == part # <<>> /\ \A i \in 1..Len(part) : part[i] \in 48..57
Names(part, n) == IsNumber(part) /\ IntValue(part, 0) \in 1..n
IsSelection(text, n) ==
    \A i \in 1..Len(SplitComma(text)) : Names(Strip(SplitComma(text)[i]), n)

PromptAnswered == call.fn = "prompt_choice" /\ call.asked > 0

\* C13: after each answer prompt_choice has returned None (on Q, end of
\* input, interrupt), or has returned a non-empty list of indices within
\* 0..len(options)-1 (all of them on A, and on A only with allow_all), or,
\* on any other answer, has returned nothing and prompts again.
C13_PromptReturnsOrAsksAgain ==
    PromptAnswered =>
        /\ call.out.state \in {"returned", "asking"}
        /\ (call.out.state = "returned" /\ call.out.none) <=> Quits
        /\ (call.out.state = "returned" /\ ~call.out.none) =>
              /\ call.out.indices # <<>>
              /\ \A i \in 1..Len(call.out.indices) :
                    call.out.indices[i] \in 0..(call.options - 1)
        /\ AsksForAll =>
              IF call.allow_all
              THEN call.out = ReturnList([i \in 1..call.options |-> i - 1])
              ELSE call.out.state = "asking"
        /\ (~Quits /\ ~AsksForAll /\ ~IsSelection(Answer, call.options))
              => call.out.state = "asking"

\* what the user said at the overwrite prompt
SaidYes ==
    \E i \in 1..Len(atCall.answers) :
        /\ atCall.answers[i].kind = "line"
        /\ Lower(Strip(atCall.answers[i].text)) \in {<<121>>, <<121, 101, 115>>}

Refused ==
    /\ atCall.answers # <<>>
    /\ LET last == atCall.answers[Len(atCall.answers)]
       IN \/ last.kind # "line"
          \/ Lower(Strip(last.text)) \in {<<110>>, <<110, 111>>}

CopyPluginCalled == call.fn = "copy_plugin" /\ call.at # "start"

\* C14: a destination folder that existed when copy_plugin was called is as
\* it was unless the user answered y or yes to the overwrite prompt; after
\* n, no, end of input or interrupt at that prompt copy_plugin has returned
\* False and the destination is as it was; copy_plugin has returned True
\* only if copytree completed, the destination then being the source.
C14_CopyOverwritesOnlyOnYes ==
    CopyPluginCalled =>
        /\ (atCall.dest.exists /\ disk.dest # atCall.dest) => SaidYes
        /\ Refused => /\ call.at = "returned" /\ ~call.result
                      /\ disk.dest = atCall.dest
        /\ (call.at = "returned" /\ call.result)
              => call.copied /\ disk.dest = disk.src

\* the destination existed, the user said yes after another answer, and the
\* copy completed over a folder that was different
C14_Witness ==
    /\ CopyPluginCalled /\ call.at = "returned" /\ call.result
    /\ atCall.dest.exists /\ atCall.dest # disk.dest
    /\ Len(atCall.answers) > 1

\* C15: between two operations of either plugin the layer-tree-registry
\* bridge is enabled, also when an exception raised while nodes were removed
\* or added has ended the sort, the grouping or the restore.
C15_BridgeEnabledBetweenOperations ==
    pc = "idle" => bridge

\* a sort, a grouping or a restore was ended by an exception raised inside
\* its try statement, after the bridge was disabled and nodes were removed
C15_Witness ==
    /\ pc = "idle" /\ hist.unwound /\ bridge
    /\ snapshot.saved /\ root # snapshot.nodes

====
